---- MODULE Spec2Model ----
(***************************************************************************)
(* A model of the rubygo lexer (src/lexer/lexer.go).                       *)
(*                                                                         *)
(* The input is a sequence of bytes, each byte a one-character string.     *)
(* The lexer object is the record l, with the fields of the Go struct      *)
(* Lexer; currentState, a pointer to the top of stringStack or nil in the  *)
(* source, is the index of that element or 0.  One action, NextTokenCall,  *)
(* is one call of Lexer.NextToken.                                         *)
(***************************************************************************)
EXTENDS Integers, Sequences, FiniteSets, TLC

VARIABLES
    input,      \* the source text handed to New
    l,          \* the Lexer
    tok,        \* the token the last call of NextToken returned
    panicked,   \* whether the last call panicked (the program is then dead)
    at,         \* the Lexer as the last call's switch on l.ch saw it
    normal,     \* whether the last call reached that switch
    prev,       \* the token the call before the last returned
    eofSeen,    \* whether a call before the last returned EOF
    frames,     \* the begin tokens returned and not yet ended, innermost last,
                \* each with braceDepth as it was before the call
    misframed,  \* whether an end token did not end the innermost begin token
    restored,   \* whether every literal's end token left braceDepth as it
                \* was before the literal's begin token
    tick,       \* the parity of the number of calls of NextToken made
    tokens,     \* the tokens the Parser has read from the Lexer
    parser,     \* the Parser
    program,    \* the statements of the Program, each as its String()
    parsed,     \* whether ParseProgram has returned
    plain       \* a second Lexer, of the input without its first byte, with
                \* the token its last call returned

vars == <<input, l, tok, panicked, at, normal, prev, eofSeen, frames, misframed, restored, tick,
         tokens, parser, program, parsed, plain>>

\* ------------------------------------------------------------- bytes

\* The byte 0, which readChar yields past the end of the input.
NUL == "NUL"
\* The byte 1, which lexHeredocContent stores in terminator as a flag.
SOH == "SOH"
\* The backquote byte (a TLA+ string cannot hold it).
BQ == "BACKQUOTE"

LowerLetters ==
    {"a","b","c","d","e","f","g","h","i","j","k","l","m",
     "n","o","p","q","r","s","t","u","v","w","x","y","z"}

UpperLetters ==
    {"A","B","C","D","E","F","G","H","I","J","K","L","M",
     "N","O","P","Q","R","S","T","U","V","W","X","Y","Z"}

Digits == {"0","1","2","3","4","5","6","7","8","9"}

isLetter(ch) == ch \in LowerLetters \cup UpperLetters

isDigit(ch) == ch \in Digits

isHexDigit(ch) ==
    isDigit(ch) \/ ch \in {"a","b","c","d","e","f","A","B","C","D","E","F"}

isOctalDigit(ch) == ch \in {"0","1","2","3","4","5","6","7"}

isPunctuation(ch) ==
    ch \in {":", ";", "/", "\\", "!", "?", "\"", "'", "<", ">", ".", ",",
            "=", "~", "*", "$", "@", "&", BQ, "+", "-", "0"}

isPercentDelimiter(ch) ==
    ch # NUL /\ ~isLetter(ch) /\ ~isDigit(ch) /\ ch \notin {" ", "\t", "\n"}

\* matchingDelimiter without its brackets: every delimiter closes itself.
matchingDelimiterSelf(open) == open

matchingDelimiter(open) ==
    CASE open = "(" -> ")"
      [] open = "[" -> "]"
      [] open = "{" -> "}"
      [] open = "<" -> ">"
      [] OTHER -> open

IdentChars == LowerLetters \cup UpperLetters \cup Digits \cup {"_"}

\* ------------------------------------------------------------- tokens

Keywords ==
    {"__ENCODING__", "__FILE__", "__LINE__", "alias", "and", "begin", "BEGIN",
     "break", "case", "class", "def", "defined?", "do", "else", "elsif", "end",
     "END", "ensure", "false", "for", "if", "in", "module", "next", "nil",
     "not", "or", "redo", "rescue", "retry", "return", "self", "super", "then",
     "true", "undef", "unless", "until", "when", "while", "yield"}

\* The keyword's token type; the map Keywords of token.go gives each keyword
\* its own type, named here after the keyword.
KeywordType(ident) == "KEYWORD:" \o ident

\* LookupIdent without its test of the first byte.
LookupIdentNoConstant(ident, first) ==
    IF ident \in Keywords THEN KeywordType(ident) ELSE "IDENT"

LookupIdent(ident, first) ==
    IF ident \in Keywords THEN KeywordType(ident)
    ELSE IF first \in UpperLetters THEN "CONSTANT"
    ELSE "IDENT"

IsKeyword(t) == t \in {KeywordType(k) : k \in Keywords}

\* A token before setTokenPosition: Line, Column and Offset are Go's zero values.
newToken(tokenType, literal) ==
    [Type |-> tokenType, Literal |-> literal, Line |-> 0, Column |-> 0, Offset |-> 0]

setTokenPosition(t, line, column, offset) ==
    [t EXCEPT !.Line = line, !.Column = column, !.Offset = offset]

\* ------------------------------------------------------------- cursor

\* input[a:b] of Go panics unless 0 <= a <= b <= len(input).
SliceOK(a, b) == 0 <= a /\ a <= b /\ b <= Len(input)

RECURSIVE Slice(_, _)
Slice(a, b) == IF a >= b THEN "" ELSE input[a + 1] \o Slice(a + 1, b)

readChar(lx) ==
    LET c == IF lx.readPosition >= Len(input) THEN NUL ELSE input[lx.readPosition + 1]
    IN  [lx EXCEPT !.prevColumn = lx.column,
                   !.ch = c,
                   !.position = lx.readPosition,
                   !.readPosition = lx.readPosition + 1,
                   !.line = IF c = "\n" THEN lx.line + 1 ELSE lx.line,
                   !.column = IF c = "\n" THEN 0 ELSE lx.column + 1]

peekChar(lx) ==
    IF lx.readPosition >= Len(input) THEN NUL ELSE input[lx.readPosition + 1]

peekCharN(lx, n) ==
    LET pos == lx.readPosition + n - 1
    IN  IF pos >= Len(input) THEN NUL ELSE input[pos + 1]

\* for l.ch in S { l.readChar() }
RECURSIVE readWhile(_, _)
readWhile(lx, S) == IF lx.ch \in S THEN readWhile(readChar(lx), S) ELSE lx

\* for l.ch != '\n' && l.ch != 0 { l.readChar() }
RECURSIVE readLine(_)
readLine(lx) == IF lx.ch # "\n" /\ lx.ch # NUL THEN readLine(readChar(lx)) ELSE lx

RECURSIVE readN(_, _)
readN(lx, n) == IF n = 0 THEN lx ELSE readN(readChar(lx), n - 1)

skipWhitespace(lx) == readWhile(lx, {" ", "\t", "\r"})

\* What a lexing function hands back: the lexer after it, the token, and
\* whether it panicked (an out-of-range slice of the input).
Ret(lx, t) == [l |-> lx, tok |-> t, panic |-> FALSE]

\* return l.newToken(tokenType, l.input[startPos:l.position])
RetSlice(lx, tokenType, startPos) ==
    IF SliceOK(startPos, lx.position)
    THEN [l |-> lx, tok |-> newToken(tokenType, Slice(startPos, lx.position)),
          panic |-> FALSE]
    ELSE [l |-> lx, tok |-> newToken("ILLEGAL", ""), panic |-> TRUE]

\* ------------------------------------------------------------- string states

stringState(mode, terminator, openDelim, nesting, interpolating, saved) ==
    [mode |-> mode, terminator |-> terminator, openDelimiter |-> openDelim,
     nestingLevel |-> nesting, interpolating |-> interpolating,
     heredocIdent |-> "", heredocIndented |-> FALSE, heredocSquiggle |-> FALSE,
     heredocQuoted |-> FALSE, savedBraceDepth |-> saved]

\* pushStringState without its last line: the new state is not made current.
pushStringStateNotCurrent(lx, mode, terminator, openDelim, interpolating) ==
    LET state == stringState(mode, terminator, openDelim, 1, interpolating, 0)
    IN  [lx EXCEPT !.stringStack = Append(lx.stringStack, state)]

pushStringState(lx, mode, terminator, openDelim, interpolating) ==
    LET state == stringState(mode, terminator, openDelim, 1, interpolating, 0)
    IN  [lx EXCEPT !.stringStack = Append(lx.stringStack, state),
                   !.currentState = Len(lx.stringStack) + 1]

pushStringStateWithBraceDepth(lx, mode, terminator, openDelim, interpolating) ==
    LET state == stringState(mode, terminator, openDelim, 1, interpolating,
                             lx.braceDepth)
    IN  [lx EXCEPT !.braceDepth = 0,
                   !.stringStack = Append(lx.stringStack, state),
                   !.currentState = Len(lx.stringStack) + 1]

popStringState(lx) ==
    LET n  == Len(lx.stringStack)
        bd == IF n > 0 THEN lx.stringStack[n].savedBraceDepth ELSE lx.braceDepth
        st == IF n > 0 THEN SubSeq(lx.stringStack, 1, n - 1) ELSE lx.stringStack
    IN  [lx EXCEPT !.braceDepth = bd,
                   !.stringStack = st,
                   !.currentState = IF bd > 0 THEN 0
                                    ELSE IF Len(st) > 0 THEN Len(st)
                                    ELSE 0]

\* The record currentState points to.
cur(lx) == lx.stringStack[lx.currentState]

\* state.f = v through the pointer currentState.
setCur(lx, f, v) ==
    [lx EXCEPT !.stringStack[lx.currentState] = [@ EXCEPT ![f] = v]]

\* ------------------------------------------------------------- identifiers

lexIdentifier(lx) ==
    LET startPos == lx.position
        l1       == readWhile(lx, IdentChars)
        literal  == Slice(startPos, l1.position)
        l2       == readChar(l1)
        tokType  == LookupIdent(literal, input[startPos + 1])
    IN  IF l1.ch = "?" \/ l1.ch = "!"
        THEN IF literal \o l1.ch = "defined?"
             THEN Ret([l2 EXCEPT !.afterKeyword = TRUE],
                      newToken("KEYWORD_DEFINED", literal \o l1.ch))
             ELSE Ret([l2 EXCEPT !.afterIdent = TRUE],
                      newToken("METHOD_NAME", literal \o l1.ch))
        ELSE IF /\ l1.ch = "="
                /\ peekChar(l1) \notin {"=", "~", ">"}
                /\ ~l1.afterDot
                /\ ~l1.inLabelContext
        THEN Ret([l2 EXCEPT !.afterIdent = TRUE],
                 newToken("METHOD_NAME", literal \o "="))
        ELSE IF /\ l1.ch = ":"
                /\ peekChar(l1) # ":"
                /\ (l1.inLabelContext \/ l1.afterOperator \/ l1.startOfLine)
        THEN Ret([l2 EXCEPT !.afterIdent = FALSE], newToken("LABEL", literal \o ":"))
        ELSE IF literal = "__END__" /\ l1.startOfLine
        THEN Ret([l1 EXCEPT !.afterKeyword = FALSE, !.afterIdent = FALSE,
                            !.position = Len(input), !.readPosition = Len(input),
                            !.ch = NUL],
                 newToken("END_MARKER", literal))
        ELSE Ret([l1 EXCEPT !.afterKeyword = IsKeyword(tokType),
                            !.afterIdent = ~IsKeyword(tokType),
                            !.startOfLine = FALSE],
                 newToken(tokType, literal))

\* ------------------------------------------------------------- numbers

NumChars == Digits \cup {"_"}

\* "[eE][+-]?digits": the exponent, read when l.ch is e or E.
readExponent(lx) ==
    LET l1 == readChar(lx)
        l2 == IF l1.ch = "+" \/ l1.ch = "-" THEN readChar(l1) ELSE l1
    IN  readWhile(l2, NumChars)

\* lexNumber from "Read integer part" on; each step takes the lexer the
\* step before it left.
lexNumberTail(lx, startPos, isFloat0) ==
    LET finish(l5, isFloat, isRational, isImaginary) ==
            RetSlice([l5 EXCEPT !.afterIdent = TRUE, !.startOfLine = FALSE],
                     IF isImaginary THEN "IMAGINARY"
                     ELSE IF isRational THEN "RATIONAL"
                     ELSE IF isFloat THEN "FLOAT"
                     ELSE "INTEGER",
                     startPos)
        imaginary(l4, isFloat, isRational) ==
            finish(IF l4.ch = "i" THEN readChar(l4) ELSE l4,
                   isFloat, isRational, l4.ch = "i")
        rational(l3, isFloat) ==
            imaginary(IF l3.ch = "r" THEN readChar(l3) ELSE l3, isFloat, l3.ch = "r")
        exponent(l2, isFloat) ==
            rational(IF l2.ch \in {"e", "E"} THEN readExponent(l2) ELSE l2,
                     isFloat \/ l2.ch \in {"e", "E"})
        fraction(l1) ==
            IF l1.ch = "." /\ isDigit(peekChar(l1))
            THEN exponent(readWhile(readChar(l1), NumChars), TRUE)
            ELSE exponent(l1, isFloat0)
    IN  fraction(readWhile(lx, NumChars))

\* The 0x, 0o, 0b and 0d forms: the prefix letter, then the digits in S.
lexRadix(lx, startPos, S) ==
    LET l1 == readWhile(readChar(lx), S \cup {"_"})
    IN  RetSlice([l1 EXCEPT !.afterIdent = TRUE, !.startOfLine = FALSE],
                 "INTEGER", startPos)

lexNumber(lx) ==
    LET startPos == lx.position
        l1       == readChar(lx)
    IN  IF lx.ch # "0" THEN lexNumberTail(lx, startPos, FALSE)
        ELSE CASE l1.ch \in {"x", "X"} ->
                    lexRadix(l1, startPos,
                             Digits \cup {"a","b","c","d","e","f","A","B","C","D","E","F"})
               [] l1.ch \in {"o", "O"} ->
                    lexRadix(l1, startPos, {"0","1","2","3","4","5","6","7"})
               [] l1.ch \in {"b", "B"} -> lexRadix(l1, startPos, {"0", "1"})
               [] l1.ch \in {"d", "D"} -> lexRadix(l1, startPos, Digits)
               [] l1.ch = "." ->
                    IF isDigit(peekChar(l1))
                    THEN lexNumberTail(readWhile(readChar(l1), NumChars), startPos, TRUE)
                    ELSE lexNumberTail(l1, startPos, FALSE)
               [] l1.ch \in {"e", "E"} ->
                    lexNumberTail(readExponent(l1), startPos, TRUE)
               [] OTHER -> lexNumberTail(l1, startPos, FALSE)

\* ------------------------------------------------------------- variables

lexInstanceOrClassVariable(lx) ==
    LET startPos == lx.position
        l1       == readChar(lx)
        l2       == IF l1.ch = "@" THEN readWhile(readChar(l1), IdentChars)
                    ELSE readWhile(l1, IdentChars)
    IN  RetSlice([l2 EXCEPT !.afterIdent = TRUE],
                 IF l1.ch = "@" THEN "CVAR" ELSE "IVAR", startPos)

lexGlobalVariable(lx) ==
    LET startPos == lx.position
        l1       == readChar(lx)
    IN  IF isDigit(l1.ch) /\ l1.ch # "0"
        THEN RetSlice(readWhile(l1, Digits), "NTH_REF", startPos)
        ELSE IF l1.ch \in {"&", BQ, "'", "+"}
        THEN RetSlice(readChar(l1), "BACK_REF", startPos)
        ELSE IF l1.ch = "-" /\ isLetter(peekChar(l1))
        THEN RetSlice(readChar(readChar(l1)), "GVAR", startPos)
        ELSE IF isPunctuation(l1.ch)
        THEN RetSlice(readChar(l1), "GVAR", startPos)
        ELSE RetSlice([readWhile(l1, IdentChars) EXCEPT !.afterIdent = TRUE],
                      "GVAR", startPos)

\* ------------------------------------------------------------- comments

lexComment(lx) == RetSlice(readLine(lx), "COMMENT", lx.position)

lexEmbeddedDoc(lx) ==
    LET startPos == lx.position
        l1       == readLine(readN(lx, 6))
        l2       == IF l1.ch = "\n" THEN readChar(l1) ELSE l1
        t        == setTokenPosition(newToken("EMBDOC_BEGIN", "=begin"),
                                     l2.line - 1, 1, startPos)
    IN  Ret(pushStringState(l2, "modeNone", NUL, NUL, FALSE), t)

\* ------------------------------------------------------------- characters

lexCharLiteral(lx) ==
    LET startPos == lx.position
        l1       == readChar(lx)
        l2       == IF l1.ch = "\\" THEN readChar(readChar(l1)) ELSE readChar(l1)
    IN  RetSlice(l2, "CHAR", startPos)

shouldLexCharLiteral(lx) ==
    /\ peekChar(lx) # NUL
    /\ ~(lx.afterIdent \/ lx.afterRightParen \/ lx.afterRightBracket)

\* ------------------------------------------------------------- heredoc introducer

isHeredocStart(lx) ==
    LET p0  == lx.readPosition
        pos == IF p0 < Len(input) /\ input[p0 + 1] \in {"-", "~"} THEN p0 + 1 ELSE p0
    IN  /\ pos < Len(input)
        /\ \/ isLetter(input[pos + 1])
           \/ input[pos + 1] \in {"_", "\"", "'", BQ}

\* Each step of lexHeredocBegin takes the lexer the step before it left.
lexHeredocBegin(lx) ==
    LET startPos == lx.position - 1
        squiggle == peekChar(lx) = "~"
        indented == peekChar(lx) = "-" \/ squiggle
        push(l5, ident, literalEnd, quoted, quoteChar) ==
            Ret([l5 EXCEPT !.stringStack =
                               Append(l5.stringStack,
                                      [mode |-> "modeHeredoc", terminator |-> NUL,
                                       openDelimiter |-> NUL, nestingLevel |-> 0,
                                       interpolating |-> (~quoted \/ quoteChar # "'"),
                                       heredocIdent |-> ident,
                                       heredocIndented |-> indented,
                                       heredocSquiggle |-> squiggle,
                                       heredocQuoted |-> quoted,
                                       savedBraceDepth |-> 0]),
                            !.currentState = Len(l5.stringStack) + 1],
                newToken("HEREDOC_BEGIN", Slice(startPos, literalEnd)))
        newline(l4, ident, quoted, quoteChar) ==
            IF ~SliceOK(startPos, l4.position)
            THEN [l |-> l4, tok |-> newToken("ILLEGAL", ""), panic |-> TRUE]
            ELSE push(IF l4.ch = "\n" THEN readChar(l4) ELSE l4,
                      ident, l4.position, quoted, quoteChar)
        closing(l3, identStart, quoted, quoteChar) ==
            IF ~SliceOK(identStart, l3.position)
            THEN [l |-> l3, tok |-> newToken("ILLEGAL", ""), panic |-> TRUE]
            ELSE newline(IF quoted /\ l3.ch = quoteChar THEN readChar(l3) ELSE l3,
                         Slice(identStart, l3.position), quoted, quoteChar)
        ident(l2, quoted, quoteChar) ==
            closing(readWhile(l2, IdentChars), l2.position, quoted, quoteChar)
        quote(l1) ==
            IF peekChar(l1) \in {"\"", "'", BQ}
            THEN ident(readN(l1, 2), TRUE, peekChar(l1))
            ELSE ident(readChar(l1), FALSE, NUL)
    IN  quote(IF indented THEN readChar(lx) ELSE lx)

lexLessThan(lx) ==
    LET l1 == readChar(lx)
    IN  IF peekChar(lx) = "="
        THEN IF peekChar(l1) = ">"
             THEN Ret([readN(l1, 2) EXCEPT !.afterOperator = TRUE],
                      newToken("LESS_EQUAL_GREATER", "<=>"))
             ELSE Ret([readChar(l1) EXCEPT !.afterOperator = TRUE],
                      newToken("LESS_EQUAL", "<="))
        ELSE IF peekChar(lx) = "<"
        THEN IF isHeredocStart(l1) THEN lexHeredocBegin(l1)
             ELSE IF peekChar(l1) = "="
             THEN Ret([readN(l1, 2) EXCEPT !.afterOperator = TRUE],
                      newToken("LESS_LESS_EQUAL", "<<="))
             ELSE Ret([readChar(l1) EXCEPT !.afterOperator = TRUE],
                      newToken("LESS_LESS", "<<"))
        ELSE Ret([l1 EXCEPT !.afterOperator = TRUE], newToken("LESS", "<"))

\* ------------------------------------------------------------- regexp, percent

\* shouldLexRegexp without the test of afterRightParen and afterRightBracket.
shouldLexRegexpAfterCloser(lx) ==
    /\ ~lx.afterIdent
    /\ lx.afterOperator \/ lx.afterKeyword \/ lx.startOfLine \/ lx.sawNewline

shouldLexRegexp(lx) ==
    IF lx.afterIdent \/ lx.afterRightParen \/ lx.afterRightBracket
    THEN FALSE
    ELSE lx.afterOperator \/ lx.afterKeyword \/ lx.startOfLine \/ lx.sawNewline

lexRegexp(lx) ==
    Ret(readChar(pushStringState(lx, "modeRegexp", "/", NUL, TRUE)),
        newToken("REGEXP_BEGIN", "/"))

PercentTags == {"q", "Q", "w", "W", "i", "I", "r", "s", "x"}

isPercentLiteral(lx) ==
    IF peekChar(lx) \in PercentTags
    THEN isPercentDelimiter(peekCharN(lx, 2))
    ELSE isPercentDelimiter(peekChar(lx))

\* The switch of lexPercentLiteral: the mode, the token type and whether the
\* mode interpolates, for the byte after the percent sign.
percentKind(ch) ==
    CASE ch = "q" -> <<"modePercentQ", "STRING_BEGIN", FALSE>>
      [] ch = "Q" -> <<"modePercentQUpper", "STRING_BEGIN", TRUE>>
      [] ch = "w" -> <<"modePercentW", "WORDS_BEGIN", FALSE>>
      [] ch = "W" -> <<"modePercentWUpper", "WORDS_BEGIN", TRUE>>
      [] ch = "i" -> <<"modePercentI", "SYMBOLS_BEGIN", FALSE>>
      [] ch = "I" -> <<"modePercentIUpper", "SYMBOLS_BEGIN", TRUE>>
      [] ch = "r" -> <<"modePercentR", "REGEXP_BEGIN", TRUE>>
      [] ch = "s" -> <<"modePercentS", "SYMBOL_BEGIN", FALSE>>
      [] ch = "x" -> <<"modePercentX", "XSTRING_BEGIN", TRUE>>
      [] OTHER    -> <<"modePercentDefault", "STRING_BEGIN", TRUE>>

lexPercentLiteral(lx) ==
    LET startPos  == lx.position
        l1        == readChar(lx)
        kind      == percentKind(l1.ch)
        l2        == IF l1.ch \in PercentTags THEN readChar(l1) ELSE l1
        openDelim == l2.ch
        l3        == readChar(l2)
        r         == RetSlice(l3, kind[2], startPos)
    IN  IF r.panic THEN r
        ELSE Ret(pushStringState(l3, kind[1], matchingDelimiter(openDelim),
                                 openDelim, kind[3]),
                 r.tok)

\* ------------------------------------------------------------- heredoc body

\* strings.TrimLeft(input[a:b], " \t"), as the offset where the rest starts.
RECURSIVE trimLeft(_, _)
trimLeft(a, b) ==
    IF a < b /\ input[a + 1] \in {" ", "\t"} THEN trimLeft(a + 1, b) ELSE a

\* Whether input[lineStart:lineEnd] is the terminator line of the heredoc.
isTerminatorLine(state, lineStart, lineEnd) ==
    \/ /\ state.heredocIndented
       /\ Slice(trimLeft(lineStart, lineEnd), lineEnd) = state.heredocIdent
    \/ /\ ~state.heredocIndented
       /\ Slice(lineStart, lineEnd) = state.heredocIdent

\* The for loop of lexHeredocContent.
RECURSIVE heredocContentLoop(_, _)
heredocContentLoop(lx, content) ==
    LET lineStart == lx.position
        l1        == readLine(lx)
        line      == Slice(lineStart, l1.position)
        l2        == IF l1.ch = "\n" THEN readChar(l1) ELSE l1
        content2  == IF l1.ch = "\n" THEN content \o line \o "\n" ELSE content \o line
    IN  IF ~SliceOK(lineStart, l1.position)
        THEN [l |-> l1, tok |-> newToken("ILLEGAL", ""), panic |-> TRUE]
        ELSE IF isTerminatorLine(cur(lx), lineStart, l1.position)
        THEN Ret(setCur(l1, "terminator", SOH), newToken("STRING_CONTENT", content))
        ELSE IF l2.ch = NUL
        THEN Ret(popStringState(l2), newToken("STRING_CONTENT", content2))
        ELSE heredocContentLoop(l2, content2)

lexHeredocContent(lx) ==
    IF cur(lx).terminator = SOH
    THEN Ret(popStringState(lx), newToken("HEREDOC_END", cur(lx).heredocIdent))
    ELSE heredocContentLoop(lx, "")

\* The for loop of lexHeredocBody, for the record state taken off the queue.
RECURSIVE heredocBodyLoop(_, _, _)
heredocBodyLoop(lx, state, content) ==
    LET lineStart == lx.position
        l1        == readLine(lx)
        line      == Slice(lineStart, l1.position)
        l2        == IF l1.ch = "\n" THEN readChar(l1) ELSE l1
        content2  == IF l1.ch = "\n" THEN content \o line \o "\n" ELSE content \o line
        l3        == pushStringState(l1, "modeHeredoc", NUL, NUL, FALSE)
    IN  IF ~SliceOK(lineStart, l1.position)
        THEN [l |-> l1, tok |-> newToken("ILLEGAL", ""), panic |-> TRUE]
        ELSE IF isTerminatorLine(state, lineStart, l1.position)
        THEN Ret(setCur(l3, "heredocIdent", state.heredocIdent),
                 newToken("STRING_CONTENT", content))
        ELSE IF l2.ch = NUL
        THEN Ret(l2, newToken("STRING_CONTENT", content2))
        ELSE heredocBodyLoop(l2, state, content2)

\* lexHeredocBody with a non-empty queue (NextToken calls it only then).
lexHeredocBody(lx) ==
    heredocBodyLoop([lx EXCEPT !.heredocQueue = Tail(lx.heredocQueue),
                               !.sawNewline = FALSE],
                    Head(lx.heredocQueue), "")

\* ------------------------------------------------------------- embedded documentation

lexEmbdocContent(lx) ==
    LET startPos == lx.position
        isEnd    == /\ lx.ch = "="
                    /\ lx.readPosition + 2 < Len(input)
                    /\ Slice(lx.readPosition, lx.readPosition + 3) = "end"
        l1       == readLine(readN(lx, 4))
        l2       == readLine(lx)
        l3       == IF l2.ch = "\n" THEN readChar(l2) ELSE l2
        line     == IF l2.ch = "\n" THEN Slice(startPos, l2.position) \o "\n"
                    ELSE Slice(startPos, l2.position)
    IN  IF isEnd
        THEN Ret(popStringState(l1),
                 [newToken("EMBDOC_END", "=end") EXCEPT !.Line = lx.line])
        ELSE IF ~SliceOK(startPos, l2.position)
        THEN [l |-> l2, tok |-> newToken("ILLEGAL", ""), panic |-> TRUE]
        ELSE Ret(l3, newToken("EMBDOC_LINE", line))

\* ------------------------------------------------------------- string content

RegexpFlags == {"i", "m", "x", "o", "e", "s", "u", "n"}

\* The end token of lexStringContent, with l.ch on the terminator.
stringEnd(lx) ==
    LET state == cur(lx)
        l1    == readChar(lx)
        l2    == readWhile(l1, RegexpFlags)
        flags == Slice(l1.position, l2.position)
    IN  IF state.mode = "modeRegexp"
        THEN Ret(popStringState(l2), newToken("REGEXP_END", "/" \o flags))
        ELSE IF state.mode = "modePercentR"
        THEN Ret(popStringState(l2), newToken("REGEXP_END", state.terminator \o flags))
        ELSE Ret(popStringState(l1), newToken("STRING_END", state.terminator))

\* The for loop of lexStringContent; pos is the position its content token gets.
RECURSIVE stringContentLoop(_, _, _)
stringContentLoop(lx, content, pos) ==
    LET state      == cur(lx)
        contentTok == setTokenPosition(newToken("STRING_CONTENT", content),
                                       pos[1], pos[2], pos[3])
        l1         == readChar(lx)
    IN  IF lx.ch = NUL
        THEN IF content # "" THEN Ret(lx, contentTok)
             ELSE Ret(popStringState(lx), newToken("EOF", ""))
        ELSE IF lx.ch = state.terminator
        THEN IF state.nestingLevel = 1 \/ state.openDelimiter = NUL
             THEN IF content # "" THEN Ret(lx, contentTok) ELSE stringEnd(lx)
             ELSE stringContentLoop(
                      readChar(setCur(lx, "nestingLevel", state.nestingLevel - 1)),
                      content \o lx.ch, pos)
        ELSE IF state.openDelimiter # NUL /\ lx.ch = state.openDelimiter
        THEN stringContentLoop(
                 readChar(setCur(lx, "nestingLevel", state.nestingLevel + 1)),
                 content \o lx.ch, pos)
        ELSE IF lx.ch = "\\"
        THEN IF l1.ch # NUL
             THEN stringContentLoop(readChar(l1), content \o "\\" \o l1.ch, pos)
             ELSE stringContentLoop(l1, content \o "\\", pos)
        ELSE IF state.interpolating /\ lx.ch = "#" /\ peekChar(lx) = "{"
        THEN IF content # "" THEN Ret(lx, contentTok)
             ELSE Ret([readChar(l1) EXCEPT !.braceDepth = 1, !.currentState = 0],
                      newToken("EMBEXPR_BEGIN", "#{"))
        ELSE IF state.interpolating /\ lx.ch = "#" /\ peekChar(lx) \in {"@", "$"}
        THEN IF content # "" THEN Ret(lx, contentTok)
             ELSE Ret([l1 EXCEPT !.currentState = 0], newToken("EMBVAR", "#"))
        ELSE stringContentLoop(l1, content \o lx.ch, pos)

\* ------------------------------------------------------------- word arrays

WordSpace == {" ", "\t", "\n", "\r"}

\* Whether l.ch is the terminator that ends the literal.
atWordArrayEnd(lx) ==
    /\ lx.ch = cur(lx).terminator
    /\ (cur(lx).nestingLevel = 1 \/ cur(lx).openDelimiter = NUL)

\* l.readChar(); l.popStringState(); return STRING_END
wordArrayEnd(lx) ==
    Ret(popStringState(readChar(lx)), newToken("STRING_END", cur(lx).terminator))

\* state.nestingLevel-- when l.ch is the terminator (not ending the literal).
wordCloser(lx) ==
    IF lx.ch = cur(lx).terminator
    THEN setCur(lx, "nestingLevel", cur(lx).nestingLevel - 1)
    ELSE lx

\* state.nestingLevel++ when l.ch is the opening delimiter.
wordOpener(lx) ==
    IF cur(lx).openDelimiter # NUL /\ lx.ch = cur(lx).openDelimiter
    THEN setCur(lx, "nestingLevel", cur(lx).nestingLevel + 1)
    ELSE lx

\* The loop that skips the whitespace between two words.
RECURSIVE skipWordSpace(_)
skipWordSpace(lx) ==
    IF lx.ch \in WordSpace /\ lx.ch # cur(lx).terminator
    THEN skipWordSpace(readChar(lx))
    ELSE lx

\* What follows the "Read word content" loop.
wordArrayTail(lx, content) ==
    IF content # "" THEN Ret(lx, newToken("STRING_CONTENT", content))
    ELSE IF lx.ch = cur(lx).terminator THEN wordArrayEnd(lx)
    ELSE Ret(popStringState(lx), newToken("EOF", ""))

\* The "Read word content" loop of lexWordArrayContent.
RECURSIVE wordLoop(_, _)
wordLoop(lx, content) ==
    LET l1 == wordOpener(wordCloser(lx))
        l2 == readChar(l1)
    IN  IF lx.ch = NUL THEN wordArrayTail(lx, content)
        ELSE IF lx.ch \in WordSpace THEN wordArrayTail(lx, content)
        ELSE IF atWordArrayEnd(lx) THEN wordArrayTail(lx, content)
        ELSE IF lx.ch = "\\"
        THEN IF l2.ch # NUL THEN wordLoop(readChar(l2), content \o l2.ch)
             ELSE wordLoop(l2, content)
        ELSE wordLoop(l2, content \o lx.ch)

lexWordArrayContent(lx) ==
    LET l1 == wordCloser(lx)
        l2 == skipWordSpace(l1)
    IN  IF atWordArrayEnd(lx) THEN wordArrayEnd(lx)
        ELSE IF l1.ch \in WordSpace
        THEN IF atWordArrayEnd(l2) THEN wordArrayEnd(l2)
             ELSE IF l2.ch # NUL /\ l2.ch # cur(l2).terminator
             THEN Ret(l2, newToken("WORDS_SEP", " "))
             ELSE wordLoop(wordOpener(l2), "")
        ELSE wordLoop(wordOpener(l1), "")

WordArrayModes ==
    {"modePercentW", "modePercentWUpper", "modePercentI", "modePercentIUpper"}

\* lexStringContent with currentState set (NextToken calls it only then).
lexStringContent(lx) ==
    CASE cur(lx).mode = "modeHeredoc" -> lexHeredocContent(lx)
      [] cur(lx).mode = "modeNone" -> lexEmbdocContent(lx)
      [] cur(lx).mode \in WordArrayModes -> lexWordArrayContent(lx)
      [] OTHER -> stringContentLoop(lx, "", <<lx.line, lx.column, lx.position>>)

\* ------------------------------------------------------------- NextToken

\* A case of the switch of NextToken that leaves the switch: the token tok
\* and the lexer lx after the case's readChar calls and flag updates.
Op(lx, tokenType, literal) ==
    [l |-> lx, tok |-> newToken(tokenType, literal), panic |-> FALSE, ret |-> "switch"]

\* A case that leaves the switch with the token a lexing function returned.
Fall(r) == [l |-> r.l, tok |-> r.tok, panic |-> r.panic, ret |-> "switch"]

\* A case that returns l.setTokenPosition(tok, ...) from inside the switch.
Early(r) == [l |-> r.l, tok |-> r.tok, panic |-> r.panic, ret |-> "positioned"]

\* A case that returns the token of the function it calls, as it is.
Direct(r) == [l |-> r.l, tok |-> r.tok, panic |-> r.panic, ret |-> "direct"]

\* "If we were in variable interpolation mode, restore string state"
restoreAfterVariable(r) ==
    IF Len(r.l.stringStack) > 0 /\ r.l.currentState = 0
    THEN [r EXCEPT !.l.currentState = Len(r.l.stringStack)]
    ELSE r

caseNewline(lx) ==
    Early(Ret([readChar(lx) EXCEPT !.sawNewline = TRUE, !.startOfLine = TRUE,
                                   !.afterOperator = FALSE, !.afterKeyword = FALSE,
                                   !.afterIdent = FALSE, !.afterRightParen = FALSE,
                                   !.afterRightBracket = FALSE, !.afterDot = FALSE],
              newToken("NEWLINE", "\n")))

casePlus(lx) ==
    IF peekChar(lx) = "="
    THEN Op([readN(lx, 2) EXCEPT !.afterOperator = TRUE, !.afterIdent = FALSE],
            "PLUS_EQUAL", "+=")
    ELSE Op([readChar(lx) EXCEPT !.afterOperator = FALSE, !.afterIdent = FALSE],
            "PLUS", "+")

caseMinus(lx) ==
    IF peekChar(lx) = "="
    THEN Op([readN(lx, 2) EXCEPT !.afterOperator = TRUE, !.afterIdent = FALSE],
            "MINUS_EQUAL", "-=")
    ELSE IF peekChar(lx) = ">"
    THEN Op([readN(lx, 2) EXCEPT !.afterOperator = TRUE, !.afterIdent = FALSE],
            "MINUS_GREATER", "->")
    ELSE Op([readChar(lx) EXCEPT !.afterOperator = FALSE, !.afterIdent = FALSE],
            "MINUS", "-")

caseStar(lx) ==
    IF peekChar(lx) = "*"
    THEN IF peekChar(readChar(lx)) = "="
         THEN Op([readN(lx, 3) EXCEPT !.afterOperator = TRUE, !.afterIdent = FALSE],
                 "STAR_STAR_EQUAL", "**=")
         ELSE Op([readN(lx, 2) EXCEPT !.afterOperator = FALSE, !.afterIdent = FALSE],
                 "STAR_STAR", "**")
    ELSE IF peekChar(lx) = "="
    THEN Op([readN(lx, 2) EXCEPT !.afterOperator = TRUE, !.afterIdent = FALSE],
            "STAR_EQUAL", "*=")
    ELSE Op([readChar(lx) EXCEPT !.afterOperator = FALSE, !.afterIdent = FALSE],
            "STAR", "*")

caseSlash(lx) ==
    IF peekChar(lx) = "="
    THEN Op([readN(lx, 2) EXCEPT !.afterOperator = TRUE], "SLASH_EQUAL", "/=")
    ELSE IF shouldLexRegexp(lx)
    THEN Fall(lexRegexp(lx))
    ELSE Op([readChar(lx) EXCEPT !.afterOperator = FALSE], "SLASH", "/")

casePercent(lx) ==
    IF peekChar(lx) = "="
    THEN Op([readN(lx, 2) EXCEPT !.afterOperator = TRUE], "PERCENT_EQUAL", "%=")
    ELSE IF isPercentLiteral(lx)
    THEN LET r == lexPercentLiteral(lx)
         IN  Fall([r EXCEPT !.l.afterOperator = FALSE, !.l.afterIdent = TRUE])
    ELSE Op([readChar(lx) EXCEPT !.afterOperator = FALSE, !.afterIdent = TRUE],
            "PERCENT", "%")

caseAmpersand(lx) ==
    IF peekChar(lx) = "&"
    THEN IF peekChar(readChar(lx)) = "="
         THEN Op([readN(lx, 3) EXCEPT !.afterOperator = TRUE],
                 "AMPERSAND_AMPERSAND_EQUAL", "&&=")
         ELSE Op([readN(lx, 2) EXCEPT !.afterOperator = TRUE],
                 "AMPERSAND_AMPERSAND", "&&")
    ELSE IF peekChar(lx) = "="
    THEN Op([readN(lx, 2) EXCEPT !.afterOperator = TRUE], "AMPERSAND_EQUAL", "&=")
    ELSE IF peekChar(lx) = "."
    THEN Op([readN(lx, 2) EXCEPT !.afterOperator = TRUE], "AMPERSAND_DOT", "&.")
    ELSE Op([readChar(lx) EXCEPT !.afterOperator = TRUE], "AMPERSAND", "&")

casePipe(lx) ==
    IF peekChar(lx) = "|"
    THEN IF peekChar(readChar(lx)) = "="
         THEN Op([readN(lx, 3) EXCEPT !.afterOperator = TRUE], "PIPE_PIPE_EQUAL", "||=")
         ELSE Op([readN(lx, 2) EXCEPT !.afterOperator = TRUE], "PIPE_PIPE", "||")
    ELSE IF peekChar(lx) = "="
    THEN Op([readN(lx, 2) EXCEPT !.afterOperator = TRUE], "PIPE_EQUAL", "|=")
    ELSE Op([readChar(lx) EXCEPT !.afterOperator = TRUE], "PIPE", "|")

caseCaret(lx) ==
    IF peekChar(lx) = "="
    THEN Op([readN(lx, 2) EXCEPT !.afterOperator = TRUE], "CARET_EQUAL", "^=")
    ELSE Op([readChar(lx) EXCEPT !.afterOperator = TRUE], "CARET", "^")

caseGreater(lx) ==
    IF peekChar(lx) = "="
    THEN Op([readN(lx, 2) EXCEPT !.afterOperator = TRUE], "GREATER_EQUAL", ">=")
    ELSE IF peekChar(lx) = ">"
    THEN IF peekChar(readChar(lx)) = "="
         THEN Op([readN(lx, 3) EXCEPT !.afterOperator = TRUE],
                 "GREATER_GREATER_EQUAL", ">>=")
         ELSE Op([readN(lx, 2) EXCEPT !.afterOperator = TRUE], "GREATER_GREATER", ">>")
    ELSE Op([readChar(lx) EXCEPT !.afterOperator = TRUE], "GREATER", ">")

\* "Check for =begin": input[readPosition:readPosition+5] is sliced when
\* readPosition+4 <= len(input).
beginSliceChecked(lx) == lx.readPosition + 4 <= Len(input)

caseEqual(lx) ==
    LET done(n, tokenType, literal) ==
            Op([readN(lx, n) EXCEPT !.afterOperator = TRUE, !.afterIdent = FALSE],
               tokenType, literal)
    IN  IF peekChar(lx) = "="
        THEN IF peekChar(readChar(lx)) = "="
             THEN done(3, "EQUAL_EQUAL_EQUAL", "===")
             ELSE done(2, "EQUAL_EQUAL", "==")
        ELSE IF peekChar(lx) = "~" THEN done(2, "EQUAL_TILDE", "=~")
        ELSE IF peekChar(lx) = ">" THEN done(2, "EQUAL_GREATER", "=>")
        ELSE IF lx.startOfLine /\ peekChar(lx) = "b" /\ beginSliceChecked(lx)
        THEN IF ~SliceOK(lx.readPosition, lx.readPosition + 5)
             THEN [l |-> lx, tok |-> newToken("ILLEGAL", ""), panic |-> TRUE,
                   ret |-> "direct"]
             ELSE IF Slice(lx.readPosition, lx.readPosition + 5) = "begin"
             THEN Direct(lexEmbeddedDoc(lx))
             ELSE done(1, "EQUAL", "=")
        ELSE done(1, "EQUAL", "=")

caseBang(lx) ==
    IF peekChar(lx) = "="
    THEN Op([readN(lx, 2) EXCEPT !.afterOperator = TRUE, !.afterIdent = FALSE],
            "BANG_EQUAL", "!=")
    ELSE IF peekChar(lx) = "~"
    THEN Op([readN(lx, 2) EXCEPT !.afterOperator = TRUE, !.afterIdent = FALSE],
            "BANG_TILDE", "!~")
    ELSE Op([readChar(lx) EXCEPT !.afterOperator = TRUE, !.afterIdent = FALSE],
            "BANG", "!")

caseDot(lx) ==
    IF peekChar(lx) = "."
    THEN IF peekChar(readChar(lx)) = "."
         THEN Op([readN(lx, 3) EXCEPT !.afterOperator = TRUE], "DOT_DOT_DOT", "...")
         ELSE Op([readN(lx, 2) EXCEPT !.afterOperator = TRUE], "DOT_DOT", "..")
    ELSE Op([readChar(lx) EXCEPT !.afterDot = TRUE], "DOT", ".")

caseColon(lx) ==
    IF peekChar(lx) = ":"
    THEN Op([readN(lx, 2) EXCEPT !.afterOperator = TRUE], "COLON_COLON", "::")
    ELSE IF peekChar(lx) = "\""
    THEN Op(readChar(pushStringState(readChar(lx), "modeSymbolDoubleQuote",
                                     "\"", NUL, TRUE)),
            "SYMBOL_BEGIN", ":\"")
    ELSE IF peekChar(lx) = "'"
    THEN Op(readChar(pushStringState(readChar(lx), "modeSymbolSingleQuote",
                                     "'", NUL, FALSE)),
            "SYMBOL_BEGIN", ":'")
    ELSE IF isLetter(peekChar(lx)) \/ peekChar(lx) = "_"
    THEN Op(readChar(lx), "SYMBOL_BEGIN", ":")
    ELSE Op(readChar(lx), "COLON", ":")

\* case '{' without the count of the brace.
caseLBraceUncounted(lx) ==
    Op([readChar(lx) EXCEPT !.inLabelContext = TRUE, !.afterOperator = TRUE],
       "LBRACE", "{")

caseLBrace(lx) ==
    Op([readChar(lx) EXCEPT !.braceDepth = IF lx.braceDepth > 0 THEN lx.braceDepth + 1
                                           ELSE lx.braceDepth,
                            !.inLabelContext = TRUE, !.afterOperator = TRUE],
       "LBRACE", "{")

caseRBrace(lx) ==
    LET depth == IF lx.braceDepth > 0 THEN lx.braceDepth - 1 ELSE lx.braceDepth
    IN  IF lx.braceDepth > 0 /\ depth = 0 /\ Len(lx.stringStack) > 0
        THEN Early(Ret([readChar(lx) EXCEPT !.braceDepth = depth,
                                            !.currentState = Len(lx.stringStack)],
                       newToken("EMBEXPR_END", "}")))
        ELSE Op([readChar(lx) EXCEPT !.braceDepth = depth, !.afterOperator = FALSE,
                                     !.inLabelContext = FALSE],
                "RBRACE", "}")

caseQuote(lx, tokenType, mode, quote, interpolating) ==
    Op(readChar(pushStringStateWithBraceDepth(lx, mode, quote, NUL, interpolating)),
       tokenType, quote)

caseQuestion(lx) ==
    IF shouldLexCharLiteral(lx)
    THEN Fall(lexCharLiteral(lx))
    ELSE Op([readChar(lx) EXCEPT !.afterOperator = TRUE], "QUESTION", "?")

\* The switch of NextToken on l.ch, but for the line continuation and the
\* end of the input.
Dispatch(lx) ==
    CASE lx.ch = "\n" -> caseNewline(lx)
      [] lx.ch = "+"  -> casePlus(lx)
      [] lx.ch = "-"  -> caseMinus(lx)
      [] lx.ch = "*"  -> caseStar(lx)
      [] lx.ch = "/"  -> caseSlash(lx)
      [] lx.ch = "%"  -> casePercent(lx)
      [] lx.ch = "&"  -> caseAmpersand(lx)
      [] lx.ch = "|"  -> casePipe(lx)
      [] lx.ch = "^"  -> caseCaret(lx)
      [] lx.ch = "~"  -> Op([readChar(lx) EXCEPT !.afterOperator = TRUE], "TILDE", "~")
      [] lx.ch = "<"  -> Fall(lexLessThan(lx))
      [] lx.ch = ">"  -> caseGreater(lx)
      [] lx.ch = "="  -> caseEqual(lx)
      [] lx.ch = "!"  -> caseBang(lx)
      [] lx.ch = "."  -> caseDot(lx)
      [] lx.ch = ":"  -> caseColon(lx)
      [] lx.ch = ","  -> Op([readChar(lx) EXCEPT !.afterOperator = TRUE,
                                                 !.afterIdent = FALSE],
                            "COMMA", ",")
      [] lx.ch = ";"  -> Op([readChar(lx) EXCEPT !.afterOperator = TRUE,
                                                 !.startOfLine = TRUE],
                            "SEMICOLON", ";")
      [] lx.ch = "("  -> Op([readChar(lx) EXCEPT !.afterOperator = TRUE,
                                                 !.afterIdent = FALSE],
                            "LPAREN", "(")
      [] lx.ch = ")"  -> Op([readChar(lx) EXCEPT !.afterRightParen = TRUE,
                                                 !.afterOperator = FALSE],
                            "RPAREN", ")")
      [] lx.ch = "["  -> Op([readChar(lx) EXCEPT !.afterOperator = TRUE,
                                                 !.afterIdent = FALSE],
                            "LBRACKET", "[")
      [] lx.ch = "]"  -> Op([readChar(lx) EXCEPT !.afterRightBracket = TRUE,
                                                 !.afterOperator = FALSE],
                            "RBRACKET", "]")
      [] lx.ch = "{"  -> caseLBrace(lx)
      [] lx.ch = "}"  -> caseRBrace(lx)
      [] lx.ch = "'"  -> caseQuote(lx, "STRING_BEGIN", "modeSingleQuote", "'", FALSE)
      [] lx.ch = "\"" -> caseQuote(lx, "STRING_BEGIN", "modeDoubleQuote", "\"", TRUE)
      [] lx.ch = BQ   -> caseQuote(lx, "XSTRING_BEGIN", "modeBacktick", BQ, TRUE)
      [] lx.ch = "#"  -> Fall(lexComment(lx))
      [] lx.ch = "?"  -> caseQuestion(lx)
      [] lx.ch = "\\" -> Op(readChar(lx), "BACKSLASH", "\\")
      [] lx.ch = "@"  -> Fall(restoreAfterVariable(lexInstanceOrClassVariable(lx)))
      [] lx.ch = "$"  -> Fall(restoreAfterVariable(lexGlobalVariable(lx)))
      [] isLetter(lx.ch) \/ lx.ch = "_" -> Early(lexIdentifier(lx))
      [] isDigit(lx.ch) -> Early(lexNumber(lx))
      [] OTHER -> Op(readChar(lx), "ILLEGAL", lx.ch)

\* NextToken: the lexer after the call, the token returned, whether the call
\* panicked, and at, the lexer as the switch saw it (after skipWhitespace and
\* any line continuation), or FALSE when the call read string content.
RECURSIVE NextToken(_)
NextToken(lx) ==
    LET inString(r) ==
            [l |-> r.l, tok |-> r.tok, panic |-> r.panic, normal |-> FALSE, at |-> lx]
        \* What NextToken returns for d, the outcome of the switch at l0.
        return(l0, d) ==
            [l |-> IF d.ret = "switch" THEN [d.l EXCEPT !.startOfLine = FALSE]
                   ELSE d.l,
             tok |-> IF d.ret \in {"switch", "positioned"}
                     THEN setTokenPosition(d.tok, l0.line, l0.column, l0.position)
                     ELSE d.tok,
             panic |-> d.panic, normal |-> TRUE, at |-> l0]
        normalMode(l0) ==
            IF l0.ch = "\\" /\ peekChar(l0) = "\n"
            THEN NextToken(readN(l0, 2))
            ELSE IF l0.ch = NUL
            THEN [l |-> l0,
                  tok |-> setTokenPosition(newToken("EOF", ""),
                                           l0.line, l0.column, l0.position),
                  panic |-> FALSE, normal |-> TRUE, at |-> l0]
            ELSE return(l0, Dispatch(l0))
    IN  IF lx.currentState # 0
        THEN inString(lexStringContent(lx))
        ELSE IF Len(lx.heredocQueue) > 0 /\ lx.sawNewline
        THEN inString(lexHeredocBody(lx))
        ELSE normalMode(skipWhitespace(lx))

\* ------------------------------------------------------------- the token stream

\* The end token that closes a begin token, if the token opens a frame.
\* ":" before an identifier is a SYMBOL_BEGIN that nothing ends.
opensFrame(t) ==
    \/ t.Type \in {"STRING_BEGIN", "XSTRING_BEGIN", "WORDS_BEGIN", "SYMBOLS_BEGIN",
                   "REGEXP_BEGIN", "HEREDOC_BEGIN", "EMBEXPR_BEGIN"}
    \/ t.Type = "SYMBOL_BEGIN" /\ t.Literal # ":"

closesFrame(t) ==
    t.Type \in {"STRING_END", "REGEXP_END", "HEREDOC_END", "EMBEXPR_END"}

endOf(beginType) ==
    CASE beginType = "REGEXP_BEGIN"  -> "REGEXP_END"
      [] beginType = "HEREDOC_BEGIN" -> "HEREDOC_END"
      [] beginType = "EMBEXPR_BEGIN" -> "EMBEXPR_END"
      [] OTHER -> "STRING_END"

\* ------------------------------------------------------------- the program

\* The number of fragments an input is made of, at most.
MaxFrags == 4

\* lexer.New(input)
New ==
    readChar([position |-> 0, readPosition |-> 0, ch |-> NUL, line |-> 1,
              column |-> 0, prevColumn |-> 0, stringStack |-> <<>>,
              currentState |-> 0, braceDepth |-> 0, afterOperator |-> FALSE,
              afterKeyword |-> FALSE, afterIdent |-> FALSE,
              afterRightParen |-> FALSE, afterRightBracket |-> FALSE,
              inLabelContext |-> FALSE, sawNewline |-> FALSE,
              startOfLine |-> TRUE, afterDot |-> FALSE, heredocQueue |-> <<>>])

\* lexer.New(input[1:]): the Lexer of the input without its first byte. It
\* reads the same bytes of input, from offset 1 on (the Lexer looks at no
\* byte before the one it began with), so its offsets are greater by one.
NewOfTail == readChar([New EXCEPT !.readPosition = 1, !.line = 1, !.column = 0])

\* The inputs made of at most n of the fragments F.
RECURSIVE InputsOf(_, _)
InputsOf(F, n) ==
    IF n = 0 THEN {<<>>}
    ELSE LET shorter == InputsOf(F, n - 1)
         IN  shorter \cup {s \o f : s \in shorter, f \in F}

\* The pieces of Ruby source the inputs are made of.
Fragments ==
    {<<"b">>, <<"\"">>, <<"#", "{">>, <<"{">>, <<"}">>, <<"%", "q", "(">>, <<")">>,
     <<"=">>, <<"?">>, <<"\\">>, <<"\n">>}

\* The lexer lexer.New(input) returns, and no call of NextToken made yet.
Start ==
    /\ l = New
    /\ tok = newToken("NONE", "")
    /\ panicked = FALSE
    /\ at = New
    /\ normal = FALSE
    /\ prev = newToken("NONE", "")
    /\ eofSeen = FALSE
    /\ frames = <<>>
    /\ misframed = FALSE
    /\ restored = TRUE
    /\ tick = 0
    /\ tokens = <<>>
    /\ parser = [cur |-> 0, peek |-> 0, sawNewline |-> FALSE, errors |-> <<>>,
                 unmodelled |-> FALSE, strings |-> <<>>, steps |-> 0]
    /\ program = <<>>
    /\ parsed = FALSE
    /\ plain = [l |-> NewOfTail, tok |-> newToken("NONE", ""), panicked |-> FALSE]

InitWith(F) == input \in InputsOf(F, MaxFrags) /\ Start

Init == InitWith(Fragments)

\* What the variables record of a call of NextToken with the outcome r.
Returned(r) ==
    /\ l' = r.l
    /\ panicked' = r.panic
    /\ tok' = IF r.panic THEN tok ELSE r.tok
    /\ at' = r.at
    /\ normal' = r.normal
    /\ prev' = IF r.panic THEN prev ELSE tok
    /\ eofSeen' = (eofSeen \/ tok.Type = "EOF")
    /\ frames' = IF r.panic THEN frames
                 ELSE IF opensFrame(r.tok)
                 THEN Append(frames, [type |-> r.tok.Type, depth |-> l.braceDepth])
                 ELSE IF closesFrame(r.tok) /\ Len(frames) > 0
                 THEN SubSeq(frames, 1, Len(frames) - 1)
                 ELSE frames
    /\ misframed' = \/ misframed
                    \/ /\ ~r.panic
                       /\ closesFrame(r.tok)
                       /\ \/ Len(frames) = 0
                          \/ endOf(frames[Len(frames)].type) # r.tok.Type
    /\ restored' = /\ restored
                   /\ \/ r.panic
                      \/ ~closesFrame(r.tok)
                      \/ r.tok.Type = "EMBEXPR_END"
                      \/ Len(frames) = 0
                      \/ endOf(frames[Len(frames)].type) # r.tok.Type
                      \/ frames[Len(frames)].depth = 0
                      \/ r.l.braceDepth = frames[Len(frames)].depth

\* One call of l.NextToken() by the lexer's client.
NextTokenCall ==
    /\ ~panicked
    /\ Returned(NextToken(l))
    /\ tick' = 1 - tick
    /\ UNCHANGED <<input, tokens, parser, program, parsed, plain>>

Next == NextTokenCall

Spec == Init /\ [][Next]_vars

\* ------------------------------------------------------------- inputs that end early

\* Source text whose literals may be left open: an embedded document, a
\* string, an interpolation, a word array, a regexp and a heredoc.
OpenFragments ==
    {<<"=", "b", "e", "g", "i", "n">>, <<"\n">>, <<"b">>, <<"\"">>, <<"#", "{">>,
     <<"}">>, <<"%", "w", "(">>, <<"/">>, <<"<", "<", "b">>}

FairInit == InitWith(OpenFragments)

\* What tick shows of a call of NextToken.  NextToken returns or panics on
\* every lexer, so a call can be made exactly when no call has panicked, and
\* it is the calls, and nothing else, that flip tick.
Called == ~panicked /\ tick' = 1 - tick

\* The client of the lexer (Parser.nextToken, the loop of ParseProgram) calls
\* NextToken again for as long as the program runs: weak fairness of the
\* call, stated on tick.
FairSpec == FairInit /\ [][Next]_vars /\ WF_tick(Called)

\* ------------------------------------------------------------- C1

\* C1: no call of NextToken panics, whatever the input, also when the input
\* ends in the middle of a token.
NeverPanics == ~panicked

\* ------------------------------------------------------------- C2

\* C2: for every input the calls of NextToken come to return EOF (a call
\* that panics ends the run before: that is C1's matter, not this claim's).
ReachesEOF == <>(tok.Type = "EOF" \/ panicked)

\* ------------------------------------------------------------- C3

\* C3: once a call has returned EOF, every later call returns EOF too,
\* whatever is left on stringStack and whatever braceDepth is.
EOFRepeats == eofSeen => (tok.Type = "EOF" /\ ~panicked)

\* EOF has been returned twice with a string state still on the stack and
\* an interpolation still open.
EOFRepeatsWitness ==
    /\ eofSeen
    /\ tok.Type = "EOF"
    /\ Len(l.stringStack) > 0
    /\ l.braceDepth > 0

\* ------------------------------------------------------------- inputs with every literal closed

\* How deep literals and interpolations nest in a closed input, at most.
MaxDepth == 2

\* What opens and what closes a string, a percent literal and a regexp.
Delimiters ==
    {<< <<"\"">>, <<"\"">> >>, << <<"%", "q", "(">>, <<")">> >>, << <<"/">>, <<"/">> >>}

\* Expressions without a literal, and a heredoc with its terminator line.
Atoms == {<<"b">>, <<"@", "b">>, <<"<", "<", "b", "\n", "b", "\n">>}

\* Expressions in which every literal and every #{ is closed, nesting to
\* depth n at most: an atom, or a literal whose content is empty, a letter,
\* or an interpolation #{e} of such an expression e of depth n - 1.
RECURSIVE ClosedExprs(_)
ClosedExprs(n) ==
    IF n = 0 THEN Atoms
    ELSE LET inner    == ClosedExprs(n - 1)
             contents == {<<>>, <<"b">>} \cup {<<"#", "{">> \o e \o <<"}">> : e \in inner}
         IN  inner \cup {d[1] \o c \o d[2] : d \in Delimiters, c \in contents}

ClosedInit == input \in ClosedExprs(MaxDepth) /\ Start

SpecClosed == ClosedInit /\ [][Next]_vars

\* ------------------------------------------------------------- C4

\* C4: on an input whose literals and #{ are all closed, every end token
\* ends the innermost begin token that is open, of its own kind, and no
\* begin token is left open when EOF is returned.
ProperlyFramed == ~misframed /\ (tok.Type = "EOF" => frames = <<>>)

\* ------------------------------------------------------------- C5

\* Source text of interpolations with braces in them.
BraceFragments ==
    {<<"\"", "#", "{">>, <<"{">>, <<"}">>, <<"\"">>, <<"b">>, <<"\n">>, <<"%", "q", "(">>}

BraceInit == InitWith(BraceFragments)

SpecBrace == BraceInit /\ [][Next]_vars

\* C5: EMBEXPR_BEGIN sets braceDepth to 1 and pauses the string; from then
\* on a { that the switch of NextToken sees adds one to braceDepth and a }
\* takes one off; the } is EMBEXPR_END exactly when braceDepth comes to 0
\* and RBRACE otherwise; after EMBEXPR_END the string state on top of the
\* stack is current again and the next call reads string content.
BraceBookkeeping ==
    ~panicked =>
        /\ tok.Type = "EMBEXPR_BEGIN" => l.braceDepth = 1 /\ l.currentState = 0
        /\ (normal /\ at.braceDepth > 0 /\ at.ch = "{") =>
               /\ tok.Type = "LBRACE"
               /\ l.braceDepth = at.braceDepth + 1
        /\ (normal /\ at.braceDepth > 0 /\ at.ch = "}") =>
               /\ l.braceDepth = at.braceDepth - 1
               /\ tok.Type = IF l.braceDepth = 0 THEN "EMBEXPR_END" ELSE "RBRACE"
        /\ tok.Type = "EMBEXPR_END" =>
               /\ normal /\ at.ch = "}" /\ at.braceDepth = 1
               /\ l.currentState > 0
               /\ l.currentState = Len(l.stringStack)
        /\ prev.Type = "EMBEXPR_END" => ~normal

\* A brace pair inside an interpolation has been lexed and the } after it
\* has closed the interpolation.
BraceBookkeepingWitness ==
    /\ ~panicked
    /\ prev.Type = "RBRACE"
    /\ tok.Type = "EMBEXPR_END"
    /\ at.braceDepth = 1
    /\ l.currentState > 0

\* ------------------------------------------------------------- C6

\* The begin tokens of the string-like literals.
opensLiteral(t) == opensFrame(t) /\ t.Type # "EMBEXPR_BEGIN"

\* C6: a literal opened inside an interpolation, with braceDepth = d > 0,
\* saves d on its string state and sets braceDepth to 0, and after the
\* literal's end token braceDepth is d again.
SavesBraceDepth ==
    /\ (~panicked /\ normal /\ opensLiteral(tok) /\ at.braceDepth > 0) =>
           /\ l.braceDepth = 0
           /\ Len(l.stringStack) > 0
           /\ l.stringStack[Len(l.stringStack)].savedBraceDepth = at.braceDepth
    /\ restored

\* ------------------------------------------------------------- C7

\* The 1-based line of the byte at offset off, and its 1-based column.
RECURSIVE LineOf(_)
LineOf(off) ==
    IF off <= 0 THEN 1
    ELSE IF off <= Len(input) /\ input[off] = "\n" THEN LineOf(off - 1) + 1
    ELSE LineOf(off - 1)

RECURSIVE ColumnOf(_)
ColumnOf(off) ==
    IF off <= 0 THEN 1
    ELSE IF off <= Len(input) /\ input[off] = "\n" THEN 1
    ELSE ColumnOf(off - 1) + 1

\* C7: a token carries the position of its first byte, the byte the call
\* that returned it began at: its 0-based offset and its 1-based line and
\* column, so that Line >= 1 and Column >= 1.
PositionOfFirstByte ==
    (~panicked /\ tok.Type # "NONE") =>
        /\ tok.Line >= 1
        /\ tok.Column >= 1
        /\ tok.Offset = at.position
        /\ tok.Line = LineOf(tok.Offset)
        /\ tok.Column = ColumnOf(tok.Offset)

\* ------------------------------------------------------------- C8

\* C8: a token that is not EOF is not before the token returned before it
\* in (line, column), and its offset is greater.
PositionsIncrease ==
    (~panicked /\ tok.Type \notin {"NONE", "EOF"} /\ prev.Type \notin {"NONE", "EOF"}) =>
        /\ \/ prev.Line < tok.Line
           \/ prev.Line = tok.Line /\ prev.Column <= tok.Column
        /\ prev.Offset < tok.Offset

\* ------------------------------------------------------------- C9

\* Source text around a slash.
SlashFragments ==
    {<<"/">>, <<"=">>, <<"b">>, <<"1">>, <<")">>, <<"\"">>, <<"\n">>, <<"*">>,
     <<"i", "f", " ">>}

SlashInit == InitWith(SlashFragments)

SpecSlash == SlashInit /\ [][Next]_vars

\* "A / begins a regex iff none of after_ident, after_right_paren,
\* after_right_bracket is set, and at least one of after_operator,
\* after_keyword, start_of_line, or saw_newline is set."
RegexpExpected(lx) ==
    /\ ~(lx.afterIdent \/ lx.afterRightParen \/ lx.afterRightBracket)
    /\ lx.afterOperator \/ lx.afterKeyword \/ lx.startOfLine \/ lx.sawNewline

\* The last call came to the switch of NextToken with l.ch a slash.
AtSlash == ~panicked /\ normal /\ at.ch = "/"

\* C9: on a / the switch returns REGEXP_BEGIN if and only if the flags
\* expect a regexp, and SLASH or SLASH_EQUAL in every other case.
SlashByFlags ==
    AtSlash =>
        /\ tok.Type = "REGEXP_BEGIN" <=> RegexpExpected(at)
        /\ tok.Type \in {"REGEXP_BEGIN", "SLASH", "SLASH_EQUAL"}

\* C9, amended: /= is SLASH_EQUAL whatever the flags are; a / that no =
\* follows is REGEXP_BEGIN if and only if the flags expect a regexp, and
\* SLASH otherwise.
SlashEqualFirst ==
    AtSlash =>
        IF peekChar(at) = "="
        THEN tok.Type = "SLASH_EQUAL"
        ELSE tok.Type = IF RegexpExpected(at) THEN "REGEXP_BEGIN" ELSE "SLASH"

\* A /= that the switch has seen while the flags expect a regexp.
SlashEqualFirstWitness ==
    /\ AtSlash
    /\ peekChar(at) = "="
    /\ RegexpExpected(at)
    /\ tok.Type = "SLASH_EQUAL"

\* ------------------------------------------------------------- C10

\* The tokens after which a / divides.
Operands == {"IDENT", "CONSTANT", "INTEGER", "FLOAT", "RATIONAL", "IMAGINARY",
             "RPAREN", "RBRACKET", "STRING_END"}

\* C10: after an identifier, a constant, a number, a closing bracket or
\* parenthesis, or the end of a string, a flag that makes / a division is
\* set, and a / that follows is SLASH or SLASH_EQUAL, never REGEXP_BEGIN.
DivisionAfterOperand ==
    /\ (~panicked /\ tok.Type \in Operands) =>
           l.afterIdent \/ l.afterRightParen \/ l.afterRightBracket
    /\ (AtSlash /\ prev.Type \in Operands) => tok.Type \in {"SLASH", "SLASH_EQUAL"}

\* ------------------------------------------------------------- heredocs

\* Source text of heredocs: introducers with and without the end of their
\* line, body lines, terminator lines, and an interpolation around them.
HeredocFragments ==
    {<<"<", "<", "b", "\n">>, <<"<", "<", "-", "b", "\n">>, <<"<", "<", "~", "b", "\n">>,
     <<"<", "<", "b">>, <<" ", "c", "\n">>, <<"c", "\n">>, <<"b", "\n">>,
     <<" ", "b", "\n">>, <<"\"", "#", "{">>, <<"}">>}

HeredocInit == InitWith(HeredocFragments)

SpecHeredoc == HeredocInit /\ [][Next]_vars

\* The last call read the content of a heredoc, whose string state st was
\* current when the call was made.
HeredocCall ==
    /\ ~panicked
    /\ ~normal
    /\ at.currentState # 0
    /\ at.stringStack[at.currentState].mode = "modeHeredoc"

\* The last call returned the body of a heredoc, up to its terminator line.
BodyReturned ==
    /\ HeredocCall
    /\ tok.Type = "STRING_CONTENT"
    /\ l.currentState # 0
    /\ l.stringStack[l.currentState].terminator = SOH

\* The offset at which the line that holds the byte at offset k begins.
RECURSIVE LineStart(_)
LineStart(k) == IF k <= 0 \/ input[k] = "\n" THEN k ELSE LineStart(k - 1)

\* ------------------------------------------------------------- C11

\* C11: the body of a heredoc is read after the line of its HEREDOC_BEGIN: a
\* call that returns a body begins reading at the start of a line, never in
\* the line of the introducer, whose other tokens come first.
BodyAfterIntroducingLine ==
    (HeredocCall /\ tok.Type = "STRING_CONTENT" /\ at.ch # NUL) =>
        LineStart(at.position) = at.position

\* ------------------------------------------------------------- C12

\* The indicator of the heredoc that the last call read.
Indicator == at.stringStack[at.currentState].heredocIdent

\* Whether the terminator line is compared after its leading blanks are cut.
Indented == at.stringStack[at.currentState].heredocIndented

\* The line input[a:b] without its leading spaces and tabs.
RECURSIVE Unindented(_, _)
Unindented(a, b) ==
    IF a < b /\ input[a + 1] \in {" ", "\t"} THEN Unindented(a + 1, b) ELSE Slice(a, b)

\* The offset at which the line that begins at offset a ends.
RECURSIVE LineEnd(_)
LineEnd(a) == IF a >= Len(input) \/ input[a + 1] = "\n" THEN a ELSE LineEnd(a + 1)

\* Whether the line that begins at offset a terminates the heredoc.
Terminates(a) ==
    IF Indented THEN Unindented(a, LineEnd(a)) = Indicator
    ELSE Slice(a, LineEnd(a)) = Indicator

\* The offset of the first terminator line at or after the line at offset a,
\* or -1 when there is none.
RECURSIVE FirstTerminator(_)
FirstTerminator(a) ==
    IF Terminates(a) THEN a
    ELSE IF LineEnd(a) >= Len(input) THEN -1
    ELSE FirstTerminator(LineEnd(a) + 1)

\* C12: when the introducer of a heredoc is followed at once by a newline,
\* the body is the lines before the first terminator line, returned as one
\* STRING_CONTENT; HEREDOC_END with the indicator follows; and after it
\* comes the NEWLINE (or the EOF) that ends the terminator line.
BodyUpToTerminator ==
    /\ (HeredocCall /\ tok.Type = "STRING_CONTENT" /\ prev.Type = "HEREDOC_BEGIN"
            /\ at.position > 0 /\ input[at.position] = "\n"
            /\ FirstTerminator(at.position) >= 0) =>
           /\ tok.Literal = Slice(at.position, FirstTerminator(at.position))
           /\ l.position = LineEnd(FirstTerminator(at.position))
           /\ l.currentState = at.currentState
    /\ (HeredocCall /\ prev.Type = "STRING_CONTENT"
            /\ at.stringStack[at.currentState].terminator = SOH) =>
           /\ tok.Type = "HEREDOC_END"
           /\ tok.Literal = Indicator
    /\ (~panicked /\ prev.Type = "HEREDOC_END") =>
           /\ normal
           /\ tok.Type = IF at.ch = NUL THEN "EOF" ELSE "NEWLINE"

\* ------------------------------------------------------------- C13

\* How many spaces and tabs the line at offset a begins with.
RECURSIVE Indent(_)
Indent(a) == IF a < Len(input) /\ input[a + 1] \in {" ", "\t"} THEN Indent(a + 1) + 1 ELSE 0

\* The least indent of the lines from offset a up to offset b (999: no line).
RECURSIVE MinIndent(_, _)
MinIndent(a, b) ==
    IF a >= b THEN 999
    ELSE LET rest == MinIndent(LineEnd(a) + 1, b)
         IN  IF Indent(a) < rest THEN Indent(a) ELSE rest

\* The lines from offset a up to offset b, each without its first n bytes.
RECURSIVE Stripped(_, _, _)
Stripped(a, b, n) ==
    IF a >= b THEN ""
    ELSE Slice(a + n, LineEnd(a) + 1) \o Stripped(LineEnd(a) + 1, b, n)

\* C13: the STRING_CONTENT of a <<~ heredoc is its body with the least
\* indent of its lines taken off every line.
SquiggleStripped ==
    (BodyReturned /\ at.stringStack[at.currentState].heredocSquiggle
        /\ input[at.position] = "\n") =>
        tok.Literal = Stripped(at.position, LineStart(l.position),
                               MinIndent(at.position, LineStart(l.position)))

\* ------------------------------------------------------------- C14

\* How many fragments follow the opener of a literal.
MaxTail == 3

\* The openers of every kind of string literal.
Openers ==
    {<<"\"">>, <<"'">>, <<BQ>>, <<"/">>, <<":", "\"">>, <<":", "'">>,
     <<"%", "(">>, <<"%", "q", "(">>, <<"%", "Q", "(">>, <<"%", "w", "(">>,
     <<"%", "W", "(">>, <<"%", "i", "(">>, <<"%", "I", "(">>, <<"%", "r", "(">>,
     <<"%", "s", "(">>, <<"%", "x", "(">>,
     <<"<", "<", "b", "\n">>, <<"<", "<", "'", "b", "'", "\n">>,
     <<"<", "<", "\"", "b", "\"", "\n">>}

\* What follows an opener: interpolations, text, escapes and closers.
TailFragments == {<<"#", "{">>, <<"c">>, <<"}">>, <<")">>, <<"\\">>, <<" ">>}

LiteralInit ==
    /\ input \in {o \o t : o \in Openers, t \in InputsOf(TailFragments, MaxTail)}
    /\ Start

SpecLiteral == LiteralInit /\ [][Next]_vars

\* The modes of the literals that interpolate, with the heredocs whose
\* indicator is not single-quoted.
Interpolates(st) ==
    \/ st.mode \in {"modeDoubleQuote", "modeBacktick", "modeRegexp", "modePercentQUpper",
                    "modePercentDefault", "modePercentWUpper", "modePercentIUpper",
                    "modePercentR", "modePercentX", "modeSymbolDoubleQuote"}
    \/ st.mode = "modeHeredoc" /\ st.interpolating /\ st.terminator # SOH

\* The modes of the literals that do not interpolate.
Verbatim(st) ==
    \/ st.mode \in {"modeSingleQuote", "modePercentQ", "modePercentW", "modePercentI",
                    "modePercentS", "modeSymbolSingleQuote"}
    \/ st.mode = "modeHeredoc" /\ ~st.interpolating

\* C14: a call that reads the content of a literal at an unescaped #{
\* returns EMBEXPR_BEGIN when the mode of the literal interpolates, and
\* never returns EMBEXPR_BEGIN when it does not.
InterpolationByMode ==
    (~panicked /\ ~normal /\ at.currentState # 0) =>
        LET st == at.stringStack[at.currentState]
        IN  /\ (/\ Interpolates(st)
                /\ at.ch = "#"
                /\ at.position + 2 <= Len(input)
                /\ input[at.position + 2] = "{") => tok.Type = "EMBEXPR_BEGIN"
            /\ Verbatim(st) => tok.Type # "EMBEXPR_BEGIN"

\* ------------------------------------------------------------- C15

\* The length of the identifiers that are not reserved words.
MaxIdent == 3

\* The reserved words that match [A-Za-z_][A-Za-z0-9_]*, byte by byte.
ReservedWords ==
    {<<"_", "_", "E", "N", "C", "O", "D", "I", "N", "G", "_", "_">>,
     <<"_", "_", "F", "I", "L", "E", "_", "_">>,
     <<"_", "_", "L", "I", "N", "E", "_", "_">>, <<"a", "l", "i", "a", "s">>,
     <<"a", "n", "d">>, <<"b", "e", "g", "i", "n">>, <<"B", "E", "G", "I", "N">>,
     <<"b", "r", "e", "a", "k">>, <<"c", "a", "s", "e">>, <<"c", "l", "a", "s", "s">>,
     <<"d", "e", "f">>, <<"d", "o">>, <<"e", "l", "s", "e">>, <<"e", "l", "s", "i", "f">>,
     <<"e", "n", "d">>, <<"E", "N", "D">>, <<"e", "n", "s", "u", "r", "e">>,
     <<"f", "a", "l", "s", "e">>, <<"f", "o", "r">>, <<"i", "f">>, <<"i", "n">>,
     <<"m", "o", "d", "u", "l", "e">>, <<"n", "e", "x", "t">>, <<"n", "i", "l">>,
     <<"n", "o", "t">>, <<"o", "r">>, <<"r", "e", "d", "o">>,
     <<"r", "e", "s", "c", "u", "e">>, <<"r", "e", "t", "r", "y">>,
     <<"r", "e", "t", "u", "r", "n">>, <<"s", "e", "l", "f">>, <<"s", "u", "p", "e", "r">>,
     <<"t", "h", "e", "n">>, <<"t", "r", "u", "e">>, <<"u", "n", "d", "e", "f">>,
     <<"u", "n", "l", "e", "s", "s">>, <<"u", "n", "t", "i", "l">>, <<"w", "h", "e", "n">>,
     <<"w", "h", "i", "l", "e">>, <<"y", "i", "e", "l", "d">>}

\* The bytes of the other identifiers: letters of both cases, _ and a digit.
IdentBytes == {"i", "f", "n", "B", "_", "1"}

\* Every [A-Za-z_][A-Za-z0-9_]* of at most n bytes over IdentBytes.
RECURSIVE IdentsOf(_)
IdentsOf(n) ==
    IF n = 1 THEN {<<c>> : c \in IdentBytes \ Digits}
    ELSE IdentsOf(n - 1) \cup {w \o <<c>> : w \in IdentsOf(n - 1), c \in IdentBytes}

\* The input is one identifier and nothing else.
IdentInit ==
    /\ input \in ReservedWords \cup {<<"_", "_", "E", "N", "D", "_", "_">>} \cup IdentsOf(MaxIdent)
    /\ Start

SpecIdent == IdentInit /\ [][Next]_vars

\* The first call has returned.
FirstReturned == ~panicked /\ prev.Type = "NONE" /\ tok.Type # "NONE"

\* The kind the reserved-word table, then the case of the first byte, give
\* to the input.
KindOfWord ==
    LET s == Slice(0, Len(input))
    IN  IF s \in Keywords THEN KeywordType(s)
        ELSE IF input[1] \in UpperLetters THEN "CONSTANT"
        ELSE "IDENT"

\* C15, as stated: the first token of an input that is one identifier is the
\* keyword of the identifier, or CONSTANT when its first byte is an
\* uppercase letter, or IDENT.
KindByTable == FirstReturned => tok.Type = KindOfWord

\* C15, amended: as stated, but for __END__, whose token is END_MARKER.
KindByTableOrEndMarker ==
    FirstReturned =>
        tok.Type = IF Slice(0, Len(input)) = "__END__" THEN "END_MARKER" ELSE KindOfWord

\* The input __END__ has been read.
KindByTableOrEndMarkerWitness ==
    FirstReturned /\ Slice(0, Len(input)) = "__END__" /\ tok.Type = "END_MARKER"

\* ------------------------------------------------------------- C16

\* How many bytes follow the opener of a percent literal.
MaxBody == 3

\* The byte that closes the literal the byte d opens.
Closer(d) ==
    CASE d = "(" -> ")"
      [] d = "[" -> "]"
      [] d = "{" -> "}"
      [] d = "<" -> ">"
      [] OTHER -> d

\* The bytes after the opener d: d and its closer, the backslash, a letter
\* and a bracket of another pair.
BodyBytes(d) == {d, Closer(d), "\\", "c", IF d = "(" THEN "]" ELSE ")"}

\* Every sequence of at most n of the bytes B.
RECURSIVE BodiesOf(_, _)
BodiesOf(B, n) ==
    IF n = 0 THEN {<<>>}
    ELSE BodiesOf(B, n - 1) \cup {w \o <<c>> : w \in BodiesOf(B, n - 1), c \in B}

ScalarTags == {<<>>, <<"q">>, <<"Q">>, <<"r">>, <<"s">>, <<"x">>}

PercentDelimiters == {"(", "[", "{", "<", "|"}

\* A scalar percent literal at the start of the input, and what follows it.
ScalarInit ==
    /\ input \in UNION {{<<"%">> \o t \o <<d>> \o w : w \in BodiesOf(BodyBytes(d), MaxBody)} :
                           t \in ScalarTags, d \in PercentDelimiters}
    /\ Start

SpecScalar == ScalarInit /\ [][Next]_vars

\* The offset of the first byte after the opener of the literal.
BodyStart == IF input[2] \in PercentDelimiters THEN 2 ELSE 3

\* The offset, from k on, of the closer that ends the literal input[BodyStart]
\* opened, depth being the nesting level at k: escaped bytes are passed
\* over, and only a bracket nests. -1 when the input ends first.
RECURSIVE MatchingCloser(_, _)
MatchingCloser(k, depth) ==
    LET d == input[BodyStart]
        c == input[k + 1]
    IN  IF k >= Len(input) THEN -1
        ELSE IF c = "\\" THEN MatchingCloser(k + 2, depth)
        ELSE IF c = Closer(d)
        THEN IF depth = 1 \/ Closer(d) = d THEN k ELSE MatchingCloser(k + 1, depth - 1)
        ELSE IF c = d THEN MatchingCloser(k + 1, depth + 1)
        ELSE MatchingCloser(k + 1, depth)

\* The last call read the content of a scalar percent literal.
ScalarCall ==
    /\ ~panicked
    /\ ~normal
    /\ at.currentState # 0
    /\ at.stringStack[at.currentState].mode \in
           {"modePercentQ", "modePercentQUpper", "modePercentDefault", "modePercentR",
            "modePercentS", "modePercentX"}

\* C16: a scalar percent literal ends at the closer that matches its opener
\* at nesting level 1 (at the first unescaped closer when the delimiter is
\* not a bracket); all the bytes before it, nested delimiters included, are
\* one STRING_CONTENT.
EndsAtMatchingCloser ==
    ScalarCall =>
        LET close == MatchingCloser(BodyStart, 1)
            end   == IF close < 0 THEN Len(input) ELSE close
        IN  IF at.position = close
            THEN tok.Type \in {"STRING_END", "REGEXP_END"} /\ l.currentState = 0
            ELSE IF at.position < end
            THEN /\ tok.Type = "STRING_CONTENT"
                 /\ tok.Literal = Slice(at.position, end)
                 /\ l.position = end
            ELSE tok.Type = "EOF"

\* The end of a literal whose content began with a nested opener.
EndsAtMatchingCloserWitness ==
    /\ ScalarCall
    /\ tok.Type = "STRING_END"
    /\ prev.Type = "STRING_CONTENT"
    /\ input[BodyStart] = "("
    /\ input[BodyStart + 1] = "("
    /\ at.position = BodyStart + 2

\* ------------------------------------------------------------- C17

WordTags == {"w", "W", "i", "I"}

\* A word array at the start of the input, opened with a bracket, and what
\* follows it: the bracket and its closer, a blank and a letter.
WordsInit ==
    /\ input \in UNION {{<<"%", t, d>> \o w : w \in BodiesOf({d, Closer(d), " ", "c"}, MaxBody)} :
                           t \in WordTags, d \in {"(", "[", "{", "<"}}
    /\ Start

SpecWords == WordsInit /\ [][Next]_vars

\* The last call read the content of a word array.
WordCall ==
    /\ ~panicked
    /\ ~normal
    /\ at.currentState # 0
    /\ at.stringStack[at.currentState].mode \in WordArrayModes

\* C17: a word array ends with STRING_END at the closer that matches its
\* opener, nested pairs in the words being counted as in a scalar percent
\* literal: no word runs past that closer, and STRING_END is returned there
\* and nowhere else.
WordsEndAtMatchingCloser ==
    WordCall =>
        LET close == MatchingCloser(BodyStart, 1)
        IN  /\ tok.Type = "STRING_END" => (close >= 0 /\ l.position = close + 1)
            /\ (close >= 0 /\ tok.Type = "STRING_CONTENT") => l.position <= close
            /\ (close >= 0 /\ at.position <= close) => tok.Type # "EOF"

\* ------------------------------------------------------------- parser

LOWEST == 1
MODIFIER == 2
RESCUE_MOD == 3
ASSIGNMENT == 4
TERNARY == 5
RANGE == 6
OR == 7
AND == 8
NOT == 9
EQUALS == 10
COMPARE == 11
BITOR == 12
BITAND == 13
SHIFT == 14
SUM == 15
PRODUCT == 16
UNARY == 17
POWER == 18
INDEX == 19
CALL == 20

\* The map precedences; 0, the zero value of Go's map, for a type without
\* an entry.
precedences(t) ==
    CASE t \in {KeywordType("if"), "KEYWORD_IF_MODIFIER", KeywordType("unless"),
                "KEYWORD_UNLESS_MODIFIER", KeywordType("while"), "KEYWORD_WHILE_MODIFIER",
                KeywordType("until"), "KEYWORD_UNTIL_MODIFIER"} -> MODIFIER
      [] t \in {KeywordType("rescue"), "KEYWORD_RESCUE_MODIFIER"} -> RESCUE_MOD
      [] t \in {"EQUAL", "PLUS_EQUAL", "MINUS_EQUAL", "STAR_EQUAL", "SLASH_EQUAL",
                "PERCENT_EQUAL", "STAR_STAR_EQUAL", "AMPERSAND_EQUAL", "PIPE_EQUAL",
                "CARET_EQUAL", "LESS_LESS_EQUAL", "GREATER_GREATER_EQUAL",
                "PIPE_PIPE_EQUAL", "AMPERSAND_AMPERSAND_EQUAL"} -> ASSIGNMENT
      [] t = "QUESTION" -> TERNARY
      [] t \in {"DOT_DOT", "DOT_DOT_DOT"} -> RANGE
      [] t = KeywordType("or") -> OR
      [] t = KeywordType("and") -> AND
      [] t = "PIPE_PIPE" -> OR + 5
      [] t = "AMPERSAND_AMPERSAND" -> AND + 5
      [] t \in {"EQUAL_EQUAL", "BANG_EQUAL", "EQUAL_EQUAL_EQUAL", "LESS_EQUAL_GREATER",
                "EQUAL_TILDE", "BANG_TILDE"} -> EQUALS
      [] t \in {"LESS", "GREATER", "LESS_EQUAL", "GREATER_EQUAL"} -> COMPARE
      [] t \in {"PIPE", "CARET"} -> BITOR
      [] t = "AMPERSAND" -> BITAND
      [] t \in {"LESS_LESS", "GREATER_GREATER"} -> SHIFT
      [] t \in {"PLUS", "MINUS"} -> SUM
      [] t \in {"STAR", "SLASH", "PERCENT"} -> PRODUCT
      [] t = "STAR_STAR" -> POWER
      [] t = "LBRACKET" -> INDEX
      [] t \in {"DOT", "AMPERSAND_DOT", "COLON_COLON"} -> CALL
      [] OTHER -> 0

\* The nil Expression. (String() of a node with a nil child dereferences it;
\* the model writes the child as this text.)
Nil == "<nil>"

\* What p.l.NextToken() returned at its i-th call: once the Lexer has
\* returned EOF it returns EOF for ever. 0 is the zero Token of New.
tokenAt(i) ==
    IF i = 0 THEN newToken("ILLEGAL", "")
    ELSE IF i <= Len(tokens) THEN tokens[i]
    ELSE newToken("EOF", "")

curToken(p) == tokenAt(p.cur)

peekToken(p) == tokenAt(p.peek)

\* The loop of nextToken: the index of the first token from i on that is
\* not skipped, and whether a NEWLINE was.
RECURSIVE skipNewlines(_, _)
skipNewlines(i, saw) ==
    IF tokenAt(i).Type \in {"NEWLINE", "IGNORED_NEWLINE", "COMMENT"}
    THEN skipNewlines(i + 1, saw \/ tokenAt(i).Type = "NEWLINE")
    ELSE <<i, saw>>

nextToken(p) ==
    LET r == skipNewlines(p.peek + 1, FALSE)
    IN  [p EXCEPT !.cur = p.peek, !.peek = r[1], !.sawNewline = r[2]]

peekPrecedence(p) ==
    IF precedences(peekToken(p).Type) # 0 THEN precedences(peekToken(p).Type) ELSE LOWEST

curPrecedence(p) ==
    IF precedences(curToken(p).Type) # 0 THEN precedences(curToken(p).Type) ELSE LOWEST

noPrefixParseFnError(p, t) ==
    [p EXCEPT !.errors = Append(@, "no prefix parse function for " \o t)]

\* A handler the model does not follow; no input of the specifications
\* below reaches one.
Unmodelled(p) == [p |-> [p EXCEPT !.unmodelled = TRUE], exp |-> Nil]

\* The prefix handler New registers for the token type t ("nil": none).
prefixParseFns(t) ==
    CASE t = "INTEGER" -> "parseIntegerLiteral"
      [] t = "IDENT" -> "parseIdentifier"
      [] t = "CONSTANT" -> "parseConstant"
      [] t = "LBRACE" -> "parseHashLiteral"
      [] t = KeywordType("if") -> "parseIfExpression"
      [] t = "STRING_BEGIN" -> "parseStringLiteral"
      [] t = "IVAR" -> "parseInstanceVariable"
      [] t = "REGEXP_BEGIN" -> "parseRegexpLiteral"
      [] t = KeywordType("begin") -> "parseBeginExpression"
      [] t \in {"FLOAT", "STRING_CONTENT", "SYMBOL_BEGIN", "COLON",
                KeywordType("true"), KeywordType("false"), KeywordType("nil"),
                KeywordType("self"), "CVAR", "GVAR", "BANG", "MINUS", "PLUS",
                "TILDE", "LPAREN", "LPAREN_BEG", "LBRACKET", "LBRACKET_ARRAY",
                KeywordType("unless"), KeywordType("case"),
                KeywordType("while"), KeywordType("until"), KeywordType("for"),
                KeywordType("yield"), KeywordType("super"),
                KeywordType("not"), "KEYWORD_DEFINED", "MINUS_GREATER",
                "UCOLON_COLON", "LABEL", "STAR", "STAR_STAR"} -> "unmodelled"
      [] OTHER -> "nil"

\* The infix handler New registers for the token type t ("nil": none).
infixParseFns(t) ==
    CASE t \in {"PLUS", "MINUS", "STAR", "SLASH", "PERCENT", "STAR_STAR", "EQUAL_EQUAL",
                "BANG_EQUAL", "EQUAL_EQUAL_EQUAL", "LESS_EQUAL_GREATER", "LESS", "GREATER",
                "LESS_EQUAL", "GREATER_EQUAL", "AMPERSAND_AMPERSAND", "PIPE_PIPE",
                "AMPERSAND", "PIPE", "CARET", "LESS_LESS", "GREATER_GREATER",
                "EQUAL_TILDE", "BANG_TILDE"} -> "parseInfixExpression"
      [] t \in {KeywordType("if"), "KEYWORD_IF_MODIFIER"} -> "parseModifierIf"
      [] t \in {KeywordType("unless"), "KEYWORD_UNLESS_MODIFIER"} -> "parseModifierUnless"
      [] t \in {KeywordType("while"), "KEYWORD_WHILE_MODIFIER"} -> "parseModifierWhile"
      [] t \in {KeywordType("until"), "KEYWORD_UNTIL_MODIFIER"} -> "parseModifierUntil"
      [] t \in {KeywordType("rescue"), "KEYWORD_RESCUE_MODIFIER"} -> "parseRescueModifier"
      [] t \in {"DOT_DOT", "DOT_DOT_DOT", "EQUAL", "PLUS_EQUAL", "MINUS_EQUAL",
                "STAR_EQUAL", "SLASH_EQUAL", "PERCENT_EQUAL", "STAR_STAR_EQUAL",
                "PIPE_PIPE_EQUAL", "AMPERSAND_AMPERSAND_EQUAL", "AMPERSAND_EQUAL",
                "PIPE_EQUAL", "CARET_EQUAL", "LESS_LESS_EQUAL", "GREATER_GREATER_EQUAL",
                "LBRACKET", "DOT", "AMPERSAND_DOT", "COLON_COLON", "QUESTION",
                KeywordType("and"), KeywordType("or")} -> "unmodelled"
      [] OTHER -> "nil"

\* strings.Join(args, ", ")
RECURSIVE Join(_)
Join(args) ==
    IF args = <<>> THEN ""
    ELSE IF Len(args) = 1 THEN args[1]
    ELSE args[1] \o ", " \o Join(Tail(args))

\* The token types after which parseIdentifier takes an identifier for the
\* name of a method called without parentheses.
ArgumentStarts ==
    {"IDENT", "INTEGER", "FLOAT", "STRING_BEGIN", "COLON", "SYMBOL_BEGIN",
     KeywordType("true"), KeywordType("false"), KeywordType("nil"), "LBRACE", "IVAR",
     "CVAR", "GVAR", "CONSTANT", "AMPERSAND"}

BlockStarts == {"LBRACE", "LBRACE_BLOCK", KeywordType("do"), "KEYWORD_DO_BLOCK"}

\* The iterations of the Parser's loops are counted in steps, and a loop
\* is left when MaxSteps of them have been made.
MaxSteps == 120

Step(p) == [p EXCEPT !.steps = @ + 1]

Spent(p) == p.steps >= MaxSteps

RECURSIVE Call(_, _)
RECURSIVE parseExpression(_, _)
RECURSIVE parseMethodCallWithBlock(_, _)
RECURSIVE infixLoop(_, _, _)
RECURSIVE parseInfixExpression(_, _)
RECURSIVE parseModifierIf(_, _)
RECURSIVE parseModifierUnless(_, _)
RECURSIVE parseIdentifier(_)
RECURSIVE parseMethodCallWithoutParens(_, _)
RECURSIVE parseArgumentsWithoutParens(_)
RECURSIVE argumentsLoop(_, _)
RECURSIVE parseStatement(_)
RECURSIVE parseHashLiteral(_)
RECURSIVE hashLoop(_, _)
RECURSIVE parseBlock(_)
RECURSIVE parseBlockParameters(_)
RECURSIVE parametersLoop(_, _)
RECURSIVE parseBlockBody(_, _)
RECURSIVE bodyLoop(_, _, _)
RECURSIVE parseIfExpression(_)
RECURSIVE parseStringLiteral(_)
RECURSIVE prefixFn(_, _)
RECURSIVE infixFn(_, _, _)
RECURSIVE parseModifier(_, _, _)
RECURSIVE parseRescueModifier(_, _)
RECURSIVE parseBeginExpression(_)
RECURSIVE sectionLoop(_, _, _)
RECURSIVE rescuesLoop(_, _)
RECURSIVE parseRescueClause(_)
RECURSIVE parseBlockContextStatement(_)
RECURSIVE parseBlockContextExpression(_, _)
RECURSIVE blockContextLoop(_, _, _)
RECURSIVE parseReturnStatement(_)
RECURSIVE regexpLoop(_, _)
RECURSIVE stringLoop(_, _, _, _)
RECURSIVE elsifLoop(_, _)
RECURSIVE parseConsequence(_)
RECURSIVE consequenceLoop(_, _)
RECURSIVE parseBlockBodyUntilEnd(_)
RECURSIVE untilEndLoop(_, _)

\* A call p.fn(args) of a method of the Parser.  The methods that parse a
\* statement, an expression or a part of one call each other through this
\* operator; the handlers of a token are called by prefixFn and infixFn.
Call(fn, args) ==
    IF fn = "parseExpression" THEN parseExpression(args[1], args[2])
    ELSE IF fn = "parseStatement" THEN parseStatement(args[1])
    ELSE IF fn = "parseBlockContextExpression" THEN parseBlockContextExpression(args[1], args[2])
    ELSE IF fn = "prefixFn" THEN prefixFn(args[1], args[2])
    ELSE IF fn = "infixFn" THEN infixFn(args[1], args[2], args[3])
    ELSE IF fn = "parseBlock" THEN parseBlock(args[1])
    ELSE IF fn = "parseArgumentsWithoutParens" THEN parseArgumentsWithoutParens(args[1])
    ELSE IF fn = "parseMethodCallWithoutParens" THEN parseMethodCallWithoutParens(args[1], args[2])
    ELSE IF fn = "parseMethodCallWithBlock" THEN parseMethodCallWithBlock(args[1], args[2])
    ELSE IF fn = "parseBlockParameters" THEN parseBlockParameters(args[1])
    ELSE IF fn = "parseBlockBody" THEN parseBlockBody(args[1], args[2])
    ELSE IF fn = "parseConsequence" THEN parseConsequence(args[1])
    ELSE IF fn = "parseBlockBodyUntilEnd" THEN parseBlockBodyUntilEnd(args[1])
    ELSE IF fn = "parseRescueClause" THEN parseRescueClause(args[1])
    ELSE IF fn = "parseReturnStatement" THEN parseReturnStatement(args[1])
    ELSE parseBlockContextStatement(args[1])

\* An expression is its String(); the handlers return it with the Parser
\* they leave.
\* The call prefix() of the handler registered for the current token.
prefixFn(p, prefix) ==
    IF prefix = "unmodelled" THEN Unmodelled(p)
    ELSE IF prefix = "parseIdentifier" THEN parseIdentifier(p)
    ELSE IF prefix = "parseHashLiteral" THEN parseHashLiteral(p)
    ELSE IF prefix = "parseIfExpression" THEN parseIfExpression(p)
    ELSE IF prefix = "parseStringLiteral" THEN parseStringLiteral(p)
    ELSE IF prefix = "parseRegexpLiteral" THEN regexpLoop(nextToken(p), "")
    ELSE IF prefix = "parseBeginExpression" THEN parseBeginExpression(p)
    ELSE [p |-> p, exp |-> curToken(p).Literal]

\* The call infix(leftExp) of the handler registered for the current token.
infixFn(p, infix, left) ==
    IF infix = "parseInfixExpression" THEN parseInfixExpression(p, left)
    ELSE IF infix = "parseModifierIf" THEN parseModifierIf(p, left)
    ELSE IF infix = "parseModifierUnless" THEN parseModifierUnless(p, left)
    ELSE IF infix = "parseModifierWhile" THEN parseModifier(p, left, "while")
    ELSE IF infix = "parseModifierUntil" THEN parseModifier(p, left, "until")
    ELSE parseRescueModifier(p, left)

parseExpression(p, precedence) ==
    LET prefix == prefixParseFns(curToken(p).Type)
        left   == Call("prefixFn", <<p, prefix>>)
    IN  IF prefix = "nil"
        THEN [p |-> noPrefixParseFnError(p, curToken(p).Type), exp |-> Nil]
        ELSE IF prefix = "unmodelled" THEN left
        ELSE infixLoop(left.p, left.exp, precedence)

\* The for loop of parseExpression.
infixLoop(p, leftExp, precedence) ==
    IF ~Spent(p) /\ peekToken(p).Type # "EOF" /\ precedence < peekPrecedence(p)
    THEN LET infix == infixParseFns(peekToken(p).Type)
             r     == Call("infixFn", <<nextToken(p), infix, leftExp>>)
         IN  IF infix = "nil" THEN [p |-> p, exp |-> leftExp]
             ELSE IF infix = "unmodelled" THEN Unmodelled(p)
             ELSE infixLoop(Step(r.p), r.exp, precedence)
    ELSE [p |-> p, exp |-> leftExp]

parseInfixExpression(p, left) ==
    LET precedence == IF curToken(p).Type = "STAR_STAR" THEN curPrecedence(p) - 1
                      ELSE curPrecedence(p)
        right      == Call("parseExpression", <<nextToken(p), precedence>>)
    IN  [p   |-> right.p,
         exp |-> "(" \o left \o " " \o curToken(p).Literal \o " " \o right.exp \o ")"]

parseModifierIf(p, left) ==
    LET condition == Call("parseExpression", <<nextToken(p), LOWEST>>)
    IN  [p |-> condition.p, exp |-> left \o " if " \o condition.exp]

parseModifierUnless(p, left) ==
    LET condition == Call("parseExpression", <<nextToken(p), LOWEST>>)
    IN  [p |-> condition.p, exp |-> left \o " unless " \o condition.exp]

\* parseModifierWhile and parseModifierUntil.
parseModifier(p, left, modifier) ==
    LET condition == Call("parseExpression", <<nextToken(p), LOWEST>>)
    IN  [p |-> condition.p, exp |-> left \o " " \o modifier \o " " \o condition.exp]

parseRescueModifier(p, left) ==
    LET rescue == Call("parseExpression", <<nextToken(p), RESCUE_MOD>>)
    IN  [p |-> rescue.p, exp |-> left \o " rescue " \o rescue.exp]

peekError(p, t) ==
    [p EXCEPT !.errors = Append(@, "expected next token to be " \o t \o ", got "
                                   \o peekToken(p).Type \o " instead")]

expectPeek(p, t) ==
    IF peekToken(p).Type = t THEN [p |-> nextToken(p), ok |-> TRUE]
    ELSE [p |-> peekError(p, t), ok |-> FALSE]

\* strings.Join(pairs, ", ") of HashLiteral.String(): key => value
RECURSIVE JoinPairs(_)
JoinPairs(pairs) ==
    IF pairs = <<>> THEN ""
    ELSE pairs[1][1] \o " => " \o pairs[1][2]
         \o (IF Len(pairs) = 1 THEN "" ELSE ", " \o JoinPairs(Tail(pairs)))

parseHashLiteral(p) ==
    IF peekToken(p).Type = "RBRACE" THEN [p |-> nextToken(p), exp |-> "{}"]
    ELSE hashLoop(nextToken(p), <<>>)

\* The for loop of parseHashLiteral and the expectPeek after it.
hashLoop(p, pairs) ==
    LET key   == Call("parseExpression", <<p, LOWEST>>)
        p1    == IF curToken(key.p).Type = "LABEL" THEN nextToken(key.p)
                 ELSE IF peekToken(key.p).Type \in {"EQUAL_GREATER", "COLON"}
                 THEN nextToken(nextToken(key.p))
                 ELSE nextToken(key.p)
        value == Call("parseExpression", <<p1, LOWEST>>)
        all   == Append(pairs, <<key.exp, value.exp>>)
        close == expectPeek(value.p, "RBRACE")
        comma == expectPeek(value.p, "COMMA")
    IN  IF Spent(p) THEN [p |-> p, exp |-> Nil]
        ELSE IF key.exp = Nil THEN [p |-> key.p, exp |-> Nil]
        ELSE IF value.exp = Nil THEN [p |-> value.p, exp |-> Nil]
        ELSE IF peekToken(value.p).Type = "RBRACE"
        THEN [p |-> close.p, exp |-> "{" \o JoinPairs(all) \o "}"]
        ELSE IF ~comma.ok THEN [p |-> comma.p, exp |-> Nil]
        ELSE hashLoop(Step(nextToken(comma.p)), all)

\* MethodCall.String() of a call without a receiver: the arguments in
\* parentheses unless there are none and a block follows.
callString(method, args, block) ==
    method
    \o (IF args # <<>> \/ block = Nil THEN "(" \o Join(args) \o ")" ELSE "")
    \o (IF block # Nil THEN " " \o block ELSE "")

parseMethodCallWithBlock(p, method) ==
    LET block == Call("parseBlock", <<nextToken(p)>>)
    IN  [p |-> block.p, exp |-> callString(method, <<>>, block.exp)]

parseIdentifier(p) ==
    IF ~p.sawNewline /\ peekToken(p).Type \in ArgumentStarts
    THEN Call("parseMethodCallWithoutParens", <<p, curToken(p).Literal>>)
    ELSE IF peekToken(p).Type \in {"LPAREN", "LPAREN_ARG"}
    THEN Unmodelled(p)
    ELSE IF peekToken(p).Type \in BlockStarts
    THEN Call("parseMethodCallWithBlock", <<p, curToken(p).Literal>>)
    ELSE [p |-> p, exp |-> curToken(p).Literal]

parseMethodCallWithoutParens(p, method) ==
    LET r     == Call("parseArgumentsWithoutParens", <<p>>)
        block == Call("parseBlock", <<nextToken(r.p)>>)
    IN  IF peekToken(r.p).Type \in BlockStarts
        THEN [p |-> block.p, exp |-> callString(method, r.args, block.exp)]
        ELSE [p |-> r.p, exp |-> callString(method, r.args, Nil)]

\* A block is its String(): { |parameters| body }
parseBlock(p) ==
    LET isBrace == curToken(p).Type \in {"LBRACE", "LBRACE_BLOCK"}
        params  == IF peekToken(p).Type = "PIPE" THEN Call("parseBlockParameters", <<nextToken(p)>>)
                   ELSE [p |-> p, params |-> <<>>]
        body    == Call("parseBlockBody", <<params.p, isBrace>>)
    IN  [p   |-> body.p,
         exp |-> "{ " \o (IF params.params # <<>> THEN "|" \o Join(params.params) \o "| "
                          ELSE "")
                 \o body.exp \o " }"]

parseBlockParameters(p) == parametersLoop(nextToken(p), <<>>)

\* The for loop of parseBlockParameters; a parameter is its String().
parametersLoop(p, params) ==
    LET mark == curToken(p).Type \in {"STAR", "STAR_STAR", "AMPERSAND"}
        p1   == IF mark THEN nextToken(p) ELSE p
        name == (IF mark THEN curToken(p).Literal ELSE "") \o curToken(p1).Literal
        dflt == Call("parseExpression", <<nextToken(nextToken(p1)), LOWEST>>)
        p2   == IF peekToken(p1).Type = "EQUAL" THEN dflt.p ELSE p1
        str  == IF peekToken(p1).Type = "EQUAL" /\ dflt.exp # Nil
                THEN name \o " = " \o dflt.exp ELSE name
        p3   == IF peekToken(p2).Type = "COMMA" THEN nextToken(nextToken(p2))
                ELSE nextToken(p2)
    IN  IF Spent(p) \/ curToken(p).Type \in {"PIPE", "EOF"}
        THEN [p |-> p, params |-> params]
        ELSE parametersLoop(Step(p3), Append(params, str))

\* strings.Join of BlockBody.String(): the statements set apart by "; "
RECURSIVE JoinStatements(_)
JoinStatements(statements) ==
    IF statements = <<>> THEN ""
    ELSE IF Len(statements) = 1 THEN statements[1]
    ELSE statements[1] \o "; " \o JoinStatements(Tail(statements))

parseBlockBody(p, isBrace) ==
    bodyLoop(nextToken(p), IF isBrace THEN "RBRACE" ELSE KeywordType("end"), <<>>)

\* The loop of parseBlockBody without the nextToken that ends an iteration.
bodyLoopStuck(p, endToken, statements) ==
    IF Spent(p) \/ curToken(p).Type \in {endToken, "EOF"}
    THEN [p |-> p, exp |-> JoinStatements(statements)]
    ELSE LET stmt == Call("parseStatement", <<p>>)
         IN  bodyLoop(Step(stmt.p), endToken, Append(statements, stmt.exp))

\* The for loop of parseBlockBody.
bodyLoop(p, endToken, statements) ==
    IF Spent(p) \/ curToken(p).Type \in {endToken, "EOF"}
    THEN [p |-> p, exp |-> JoinStatements(statements)]
    ELSE LET stmt == Call("parseStatement", <<p>>)
         IN  bodyLoop(Step(nextToken(stmt.p)), endToken, Append(statements, stmt.exp))

\* parseArgumentsWithoutParens with its arguments parsed at LOWEST.
parseArgumentsAtLowest(p) ==
    LET first == Call("parseExpression", <<nextToken(p), LOWEST>>)
    IN  argumentsLoop(first.p, <<first.exp>>)

parseArgumentsWithoutParens(p) ==
    LET first == Call("parseExpression", <<nextToken(p), MODIFIER>>)
    IN  argumentsLoop(first.p, <<first.exp>>)

\* The for loop of parseArgumentsWithoutParens.
argumentsLoop(p, args) ==
    IF ~Spent(p) /\ peekToken(p).Type = "COMMA"
    THEN LET r == Call("parseExpression", <<nextToken(nextToken(p)), MODIFIER>>)
         IN  argumentsLoop(Step(r.p), Append(args, r.exp))
    ELSE [p |-> p, args |-> args]

\* The statements that parseStatement hands to parsers of their own and
\* that are not followed here.
StatementKeywords ==
    {KeywordType(k) : k \in {"def", "class", "module", "break", "next", "redo",
                             "retry", "alias", "undef"}}

\* InterpolatedString.String() without its quotes: a literal part is its
\* value, any other part is #{its String()}.
RECURSIVE PartsString(_)
PartsString(parts) ==
    IF parts = <<>> THEN ""
    ELSE (IF parts[1][1] = "StringLiteral" THEN parts[1][2] ELSE "#{" \o parts[1][2] \o "}")
         \o PartsString(Tail(parts))

\* strings.TrimPrefix(literal, "/") for the literal of a REGEXP_END, which is
\* the terminator and then the flags (at most two of them here).
TrimSlash(literal) ==
    LET flags == {""} \cup RegexpFlags \cup {f \o g : f \in RegexpFlags, g \in RegexpFlags}
    IN  IF \E f \in flags : literal = "/" \o f
        THEN CHOOSE f \in flags : literal = "/" \o f
        ELSE literal

\* parseRegexpLiteral after it has moved past REGEXP_BEGIN; the node is its
\* String(), /value/flags.
regexpLoop(p, content) ==
    IF curToken(p).Type = "REGEXP_END"
    THEN [p |-> p, exp |-> "/" \o content \o "/" \o TrimSlash(curToken(p).Literal)]
    ELSE IF Spent(p) \/ curToken(p).Type = "EOF"
    THEN [p |-> p, exp |-> "/" \o content \o "/"]
    ELSE regexpLoop(Step(nextToken(p)), content \o curToken(p).Literal)

parseStringLiteral(p) == stringLoop(nextToken(p), <<>>, "", FALSE)

\* The for loop of parseStringLiteral and what follows it. A part is
\* <<kind of node, its value or its String()>>; the node returned is also
\* appended to the parser's strings (a history of the string nodes built).
stringLoop(p, parts, currentContent, hasInterpolation) ==
    LET t     == curToken(p).Type
        saved == IF currentContent # "" THEN Append(parts, <<"StringLiteral", currentContent>>)
                 ELSE parts
        expr  == Call("parseExpression", <<nextToken(p), LOWEST>>)
        added == IF expr.exp # Nil THEN Append(saved, <<"Expression", expr.exp>>) ELSE saved
        final == IF currentContent # "" \/ parts = <<>>
                 THEN Append(parts, <<"StringLiteral", currentContent>>) ELSE parts
    IN  IF Spent(p) \/ t \in {"STRING_END", "EOF"}
        THEN IF hasInterpolation
             THEN [p   |-> [p EXCEPT !.strings = Append(@, [node  |-> "InterpolatedString",
                                                            parts |-> final])],
                   exp |-> "\"" \o PartsString(final) \o "\""]
             ELSE [p   |-> [p EXCEPT !.strings =
                               Append(@, [node  |-> "StringLiteral",
                                          parts |-> << <<"StringLiteral", currentContent>> >>])],
                   exp |-> "\"" \o currentContent \o "\""]
        ELSE IF t = "EMBEXPR_BEGIN"
        THEN stringLoop(Step(nextToken(expectPeek(expr.p, "EMBEXPR_END").p)), added, "",
                        TRUE)
        ELSE IF t = "EMBVAR"
        THEN stringLoop(Step(expr.p), added, "", TRUE)
        ELSE stringLoop(Step(nextToken(p)), parts, currentContent \o curToken(p).Literal,
                        hasInterpolation)

\* IfExpression.String() of the node whose condition and consequence are
\* the first of the chain, whose Alternative is the rest of the chain and
\* whose ElseBody is the given one (Nil for none).
RECURSIVE IfString(_, _)
IfString(chain, elseBody) ==
    "if " \o chain[1][1] \o "\n" \o chain[1][2]
    \o (IF Len(chain) > 1 THEN "\nelsif " \o IfString(Tail(chain), Nil) ELSE "")
    \o (IF elseBody # Nil THEN "\nelse\n" \o elseBody ELSE "")
    \o "\nend"

\* The else body is stored in the node that parseIfExpression returns.
parseIfExpression(p) ==
    LET cond  == Call("parseExpression", <<nextToken(p), LOWEST>>)
        p1    == IF peekToken(cond.p).Type = KeywordType("then") THEN nextToken(cond.p)
                 ELSE cond.p
        cons  == Call("parseConsequence", <<p1>>)
        chain == elsifLoop(cons.p, << <<cond.exp, cons.exp>> >>)
        body  == Call("parseBlockBodyUntilEnd", <<nextToken(chain.p)>>)
    IN  IF curToken(chain.p).Type = KeywordType("else")
        THEN [p |-> body.p, exp |-> IfString(chain.chain, body.exp)]
        ELSE [p |-> chain.p, exp |-> IfString(chain.chain, Nil)]

\* The for loop of parseIfExpression: each elsif is put at the end of the
\* chain of alternatives.
elsifLoop(p, chain) ==
    IF Spent(p) \/ curToken(p).Type # KeywordType("elsif") THEN [p |-> p, chain |-> chain]
    ELSE LET cond == Call("parseExpression", <<nextToken(p), LOWEST>>)
             p1   == IF peekToken(cond.p).Type = KeywordType("then") THEN nextToken(cond.p)
                     ELSE cond.p
             cons == Call("parseConsequence", <<p1>>)
         IN  elsifLoop(Step(cons.p), Append(chain, <<cond.exp, cons.exp>>))

parseConsequence(p) == consequenceLoop(nextToken(p), <<>>)

consequenceLoop(p, statements) ==
    IF \/ Spent(p)
       \/ curToken(p).Type \in {KeywordType("elsif"), KeywordType("else"),
                                KeywordType("end"), "EOF"}
    THEN [p |-> p, exp |-> JoinStatements(statements)]
    ELSE LET stmt == Call("parseStatement", <<p>>)
         IN  consequenceLoop(Step(nextToken(stmt.p)), Append(statements, stmt.exp))

parseBlockBodyUntilEnd(p) == untilEndLoop(p, <<>>)

untilEndLoop(p, statements) ==
    IF Spent(p) \/ curToken(p).Type \in {KeywordType("end"), "EOF"}
    THEN [p |-> p, exp |-> JoinStatements(statements)]
    ELSE LET stmt == Call("parseStatement", <<p>>)
         IN  untilEndLoop(Step(nextToken(stmt.p)), Append(statements, stmt.exp))

peekIsStatementEnd(p) ==
    \/ p.sawNewline
    \/ peekToken(p).Type \in {"EOF", "NEWLINE", "SEMICOLON", KeywordType("end"),
                               KeywordType("else"), KeywordType("elsif"),
                               KeywordType("when"), KeywordType("rescue"),
                               KeywordType("ensure"), "RBRACE", "RPAREN", "RBRACKET"}

\* A return statement is its String().
parseReturnStatement(p) ==
    LET value == Call("parseExpression", <<nextToken(p), LOWEST>>)
    IN  IF peekIsStatementEnd(p) \/ value.exp = Nil
        THEN [p |-> IF peekIsStatementEnd(p) THEN p ELSE value.p, exp |-> "return"]
        ELSE [p |-> value.p, exp |-> "return " \o value.exp]

peekIsBlockKeyword(p) ==
    peekToken(p).Type \in {KeywordType("rescue"), KeywordType("else"), KeywordType("ensure"),
                           KeywordType("end"), KeywordType("elsif"), KeywordType("when")}

parseBlockContextStatement(p) ==
    IF curToken(p).Type = KeywordType("return") THEN Call("parseReturnStatement", <<p>>)
    ELSE IF curToken(p).Type \in StatementKeywords THEN Unmodelled(p)
    ELSE LET r == Call("parseBlockContextExpression", <<p, LOWEST>>)
         IN  [p |-> r.p, exp |-> IF r.exp = Nil THEN "" ELSE r.exp]

parseBlockContextExpression(p, precedence) ==
    LET prefix == prefixParseFns(curToken(p).Type)
        left   == Call("prefixFn", <<p, prefix>>)
    IN  IF prefix = "nil"
        THEN [p |-> noPrefixParseFnError(p, curToken(p).Type), exp |-> Nil]
        ELSE IF prefix = "unmodelled" THEN left
        ELSE blockContextLoop(left.p, left.exp, precedence)

\* The for loop of parseBlockContextExpression.
blockContextLoop(p, leftExp, precedence) ==
    IF /\ ~Spent(p)
       /\ peekToken(p).Type # "EOF" /\ ~peekIsBlockKeyword(p) /\ precedence < peekPrecedence(p)
    THEN LET infix == infixParseFns(peekToken(p).Type)
             r     == Call("infixFn", <<nextToken(p), infix, leftExp>>)
         IN  IF infix = "nil" THEN [p |-> p, exp |-> leftExp]
             ELSE IF infix = "unmodelled" THEN Unmodelled(p)
             ELSE blockContextLoop(Step(r.p), r.exp, precedence)
    ELSE [p |-> p, exp |-> leftExp]

\* BeginExpression.String(); a section that is absent is Nil.
parseBeginExpression(p) ==
    LET ends    == {KeywordType("rescue"), KeywordType("else"), KeywordType("ensure"),
                    KeywordType("end"), "EOF"}
        body    == sectionLoop(nextToken(p), ends, <<>>)
        rescues == rescuesLoop(body.p, "")
        else    == IF curToken(rescues.p).Type = KeywordType("else")
                   THEN sectionLoop(nextToken(rescues.p),
                                    {KeywordType("ensure"), KeywordType("end"), "EOF"}, <<>>)
                   ELSE [p |-> rescues.p, exp |-> Nil]
        ensure  == IF curToken(else.p).Type = KeywordType("ensure")
                   THEN sectionLoop(nextToken(else.p), {KeywordType("end"), "EOF"}, <<>>)
                   ELSE [p |-> else.p, exp |-> Nil]
    IN  [p   |-> ensure.p,
         exp |-> "begin\n" \o body.exp \o rescues.exp
                 \o (IF else.exp # Nil THEN "\nelse\n" \o else.exp ELSE "")
                 \o (IF ensure.exp # Nil THEN "\nensure\n" \o ensure.exp ELSE "")
                 \o "\nend"]

\* The loops of parseBeginExpression and parseRescueClause that read the
\* statements of a section up to one of the given tokens.
sectionLoop(p, ends, statements) ==
    IF Spent(p) \/ curToken(p).Type \in ends
    THEN [p |-> p, exp |-> JoinStatements(statements)]
    ELSE LET stmt == Call("parseBlockContextStatement", <<p>>)
         IN  sectionLoop(Step(nextToken(stmt.p)), ends, Append(statements, stmt.exp))

\* The loop over the rescue clauses; each is written after a line end.
rescuesLoop(p, text) ==
    IF Spent(p) \/ curToken(p).Type # KeywordType("rescue") THEN [p |-> p, exp |-> text]
    ELSE LET rescue == Call("parseRescueClause", <<p>>)
         IN  rescuesLoop(Step(rescue.p), text \o "\n" \o rescue.exp)

\* The loop over the exception types that follow the first one.
RECURSIVE exceptionsLoop(_, _)
exceptionsLoop(p, excs) ==
    IF ~Spent(p) /\ peekToken(p).Type = "COMMA"
    THEN exceptionsLoop(Step(nextToken(nextToken(p))),
                        Append(excs, curToken(nextToken(nextToken(p))).Literal))
    ELSE [p |-> nextToken(p), args |-> excs]

\* RescueClause.String()
parseRescueClause(p) ==
    LET p1   == nextToken(p)
        excs == IF curToken(p1).Type \in {"CONSTANT", "IDENT"}
                THEN exceptionsLoop(p1, <<curToken(p1).Literal>>)
                ELSE [p |-> p1, args |-> <<>>]
        bind == curToken(excs.p).Type = "EQUAL_GREATER"
        p2   == IF bind THEN nextToken(nextToken(excs.p)) ELSE excs.p
        p3   == IF curToken(p2).Type = KeywordType("then") THEN nextToken(p2) ELSE p2
        body == sectionLoop(p3, {KeywordType("rescue"), KeywordType("else"),
                                 KeywordType("ensure"), KeywordType("end"), "EOF"}, <<>>)
    IN  [p   |-> body.p,
         exp |-> "rescue" \o (IF excs.args # <<>> THEN " " \o Join(excs.args) ELSE "")
                 \o (IF bind THEN " => " \o curToken(nextToken(excs.p)).Literal ELSE "")
                 \o "\n" \o body.exp]

parseStatement(p) ==
    IF curToken(p).Type = KeywordType("return") THEN Call("parseReturnStatement", <<p>>)
    ELSE IF curToken(p).Type \in StatementKeywords THEN Unmodelled(p)
    ELSE LET r == Call("parseExpression", <<p, LOWEST>>)
         IN  [p |-> r.p, exp |-> IF r.exp = Nil THEN "" ELSE r.exp]

\* The for loop of ParseProgram.
RECURSIVE statementsLoop(_, _)
statementsLoop(p, statements) ==
    IF Spent(p) \/ curToken(p).Type = "EOF" THEN [p |-> p, statements |-> statements]
    ELSE LET stmt == Call("parseStatement", <<p>>)
         IN  statementsLoop(Step(nextToken(stmt.p)), Append(statements, stmt.exp))

\* parser.New(l), which reads two tokens, and then ParseProgram.
ParseProgram == statementsLoop(nextToken(nextToken(parser)), <<>>)

\* The Parser reads one more token from the Lexer.
ReadToken ==
    /\ ~panicked
    /\ ~parsed
    /\ tok.Type # "EOF"
    /\ LET r == NextToken(l)
       IN  /\ Returned(r)
           /\ tokens' = IF r.panic THEN tokens ELSE Append(tokens, r.tok)
    /\ tick' = 1 - tick
    /\ UNCHANGED <<input, parser, program, parsed, plain>>

\* The Parser has read the tokens up to EOF, and parses them.
ParseProgramCall ==
    /\ ~panicked
    /\ ~parsed
    /\ tok.Type = "EOF"
    /\ parser' = ParseProgram.p
    /\ program' = ParseProgram.statements
    /\ parsed' = TRUE
    /\ UNCHANGED <<input, l, tok, panicked, at, normal, prev, eofSeen, frames, misframed,
                   restored, tick, tokens, plain>>

ParserNext == ReadToken \/ ParseProgramCall

\* ------------------------------------------------------------- infix expressions

\* The binary operators of the precedence table, byte by byte, highest
\* level first.
BinaryOperators ==
    {<<"*", "*">>, <<"*">>, <<"/">>, <<"%">>, <<"+">>, <<"-">>, <<"<", "<">>, <<">", ">">>,
     <<"&">>, <<"|">>, <<"^">>, <<"<">>, <<">">>, <<"<", "=">>, <<">", "=">>,
     <<"=", "=">>, <<"!", "=">>, <<"=", "=", "=">>, <<"<", "=", ">">>, <<"=", "~">>,
     <<"!", "~">>}

LogicalOperators == {<<"&", "&">>, <<"|", "|">>}

\* x op1 y op2 z, the operands and operators set apart by one blank; each
\* operand is an identifier or an integer.
TwoOperators ==
    {x \o <<" ">> \o op1 \o <<" ">> \o y \o <<" ">> \o op2 \o <<" ">> \o z :
        x \in {<<"a">>, <<"1">>}, y \in {<<"b">>, <<"2">>}, z \in {<<"c">>, <<"3">>},
        op1 \in BinaryOperators \cup LogicalOperators,
        op2 \in BinaryOperators \cup LogicalOperators}

\* a == b || c == d  and  a < b && c < d
ThreeOperators ==
    {<<"a", " ", "=", "=", " ", "b", " ", "|", "|", " ", "c", " ", "=", "=", " ", "d">>,
     <<"a", " ", "<", " ", "b", " ", "&", "&", " ", "c", " ", "<", " ", "d">>}

InfixInit == input \in TwoOperators \cup ThreeOperators /\ Start

SpecInfix == InfixInit /\ [][ParserNext]_vars

\* The offset at which the word that begins at offset a ends.
RECURSIVE WordEnd(_)
WordEnd(a) == IF a >= Len(input) \/ input[a + 1] = " " THEN a ELSE WordEnd(a + 1)

\* The words of the input from offset a on.
RECURSIVE WordsFrom(_)
WordsFrom(a) ==
    IF a >= Len(input) THEN <<>>
    ELSE <<Slice(a, WordEnd(a))>> \o WordsFrom(WordEnd(a) + 1)

Words == WordsFrom(0)

\* The level of a binary operator in the precedence table, the loosest first.
Level(op) ==
    CASE op = "||" -> 1
      [] op = "&&" -> 2
      [] op \in {"==", "!=", "===", "<=>", "=~", "!~"} -> 3
      [] op \in {"<", ">", "<=", ">="} -> 4
      [] op \in {"|", "^"} -> 5
      [] op = "&" -> 6
      [] op \in {"<<", ">>"} -> 7
      [] op \in {"+", "-"} -> 8
      [] op \in {"*", "/", "%"} -> 9
      [] op = "**" -> 10

Infix(left, op, right) == "(" \o left \o " " \o op \o " " \o right \o ")"

\* x op1 y op2 z grouped by the table: to the left when op1 is on the higher
\* level, or on the same level and not **.
Grouped(w) ==
    IF Level(w[2]) > Level(w[4]) \/ (Level(w[2]) = Level(w[4]) /\ w[2] # "**")
    THEN Infix(Infix(w[1], w[2], w[3]), w[4], w[5])
    ELSE Infix(w[1], w[2], Infix(w[3], w[4], w[5]))

\* ------------------------------------------------------------- C18

\* C18: x op1 y op2 z, with op1 and op2 among the arithmetic, shift, bitwise,
\* comparison and equality operators, is parsed into one expression grouped
\* by the precedence table, operators of one level grouping to the left and
\* ** to the right.
GroupedByTable ==
    (parsed /\ Len(Words) = 5 /\ Level(Words[2]) > 2 /\ Level(Words[4]) > 2) =>
        program = <<Grouped(Words)>>

\* ------------------------------------------------------------- C19

\* C19: || and && are below EQUALS and COMPARE in the table: x op1 y op2 z
\* with || or && among its operators is grouped accordingly, a == b || c == d
\* is ((a == b) || (c == d)), and a < b && c < d is ((a < b) && (c < d)).
LogicalBelowComparison ==
    /\ (parsed /\ Len(Words) = 5 /\ (Level(Words[2]) <= 2 \/ Level(Words[4]) <= 2)) =>
           program = <<Grouped(Words)>>
    /\ (parsed /\ Len(Words) = 7) =>
           program = <<Infix(Infix(Words[1], Words[2], Words[3]), Words[4],
                             Infix(Words[5], Words[6], Words[7]))>>

\* ------------------------------------------------------------- C20

\* How many arguments a call has.
MaxArgs == 3

\* The arguments of a call: an identifier, an integer, a constant and a sum.
ArgumentTexts == {<<"a">>, <<"1">>, <<"X">>, <<"b", " ", "+", " ", "2">>}

\* The conditions of a modifier.
ConditionTexts == {<<"c">>, <<"c", " ", ">", " ", "5">>, <<"1">>}

\* a1, ..., an for every n from 1 to the given one.
RECURSIVE ArgumentLists(_)
ArgumentLists(n) ==
    IF n = 1 THEN ArgumentTexts
    ELSE ArgumentLists(n - 1) \cup
         {as \o <<",", " ">> \o a : as \in ArgumentLists(n - 1), a \in ArgumentTexts}

\* f a1, ..., an if c  and  f a1, ..., an unless c
CallInputs ==
    {<<"f", " ">> \o as \o <<" ">> \o k \o <<" ">> \o c :
        as \in ArgumentLists(MaxArgs),
        k \in {<<"i", "f">>, <<"u", "n", "l", "e", "s", "s">>},
        c \in ConditionTexts}

CallInit == input \in CallInputs /\ Start

SpecCall == CallInit /\ [][ParserNext]_vars

\* The offset of the blank before the modifier keyword.
ModifierAt ==
    CHOOSE k \in 0..Len(input) - 2 : input[k + 1] = " " /\ input[k + 2] \in {"i", "u"}

\* The offset after the modifier keyword.
KeywordEnd == ModifierAt + 1 + (IF input[ModifierAt + 2] = "i" THEN 2 ELSE 6)

\* The String() of the expression input[a:b]: an operand as it is, a sum in
\* parentheses.
Rendered(a, b) ==
    IF \E k \in a + 1..b : input[k] = " " THEN "(" \o Slice(a, b) \o ")" ELSE Slice(a, b)

\* The offset at which the argument that begins at offset a ends.
RECURSIVE ArgumentEnd(_)
ArgumentEnd(a) == IF a = ModifierAt \/ input[a + 1] = "," THEN a ELSE ArgumentEnd(a + 1)

\* The arguments from offset a on, each as its String(), joined.
RECURSIVE ArgumentsFrom(_)
ArgumentsFrom(a) ==
    IF ArgumentEnd(a) = ModifierAt THEN Rendered(a, ModifierAt)
    ELSE Rendered(a, ArgumentEnd(a)) \o ", " \o ArgumentsFrom(ArgumentEnd(a) + 2)

\* C20: f a1, ..., an followed by if or unless and a condition is parsed
\* into a modifier whose body is the call with all its arguments and whose
\* condition is the expression after the keyword.
ModifierOnWholeCall ==
    parsed =>
        /\ program = <<"f(" \o ArgumentsFrom(2) \o ")" \o Slice(ModifierAt, KeywordEnd)
                        \o " " \o Rendered(KeywordEnd + 1, Len(input))>>
        /\ parser.errors = <<>>

\* A call with more than one argument has been parsed.
ModifierOnWholeCallWitness ==
    /\ parsed
    /\ \E k \in 1..Len(input) : input[k] = ","
    /\ Len(program) = 1

\* ---------------------------------------------------------------------
\* An identifier followed by a block
\* ---------------------------------------------------------------------

\* The parameter lists of a block: none, |x| and |x, y|.
ParameterTexts == {<<>>, <<"|", "x", "|", " ">>, <<"|", "x", ",", " ", "y", "|", " ">>}

\* The bodies of a block: an identifier, an integer and a sum.
BodyTexts == {<<"y">>, <<"1">>, <<"y", " ", "+", " ", "1">>}

\* The names of the method called.
MethodTexts == {<<"f">>, <<"n", "f">>, <<"f", "1">>, <<"_">>}

\* f { |params| body }  and  f do |params| body end
BlockInputs ==
    {m \o <<" ">> \o d[1] \o <<" ">> \o ps \o b \o <<" ">> \o d[2] :
        m \in MethodTexts,
        d \in {<< <<"{">>, <<"}">> >>, << <<"d", "o">>, <<"e", "n", "d">> >>},
        ps \in ParameterTexts,
        b \in BodyTexts}

BlockInit == input \in BlockInputs /\ Start

SpecBlock == BlockInit /\ [][ParserNext]_vars

\* The offset of the blank after the name of the method.
NameEnd == CHOOSE k \in 0..Len(input) - 1 : input[k + 1] = " " /\ \A j \in 1..k : input[j] # " "

\* The offsets at which the block's opener ends and its closer begins.
OpenerEnd == NameEnd + (IF input[NameEnd + 2] = "{" THEN 2 ELSE 3)
CloserStart == Len(input) - (IF input[Len(input)] = "}" THEN 1 ELSE 3)

\* The offset at which the body of the block begins: after the blank that
\* follows the parameters, when there are any.
BodyBegin ==
    IF input[OpenerEnd + 2] = "|"
    THEN 1 + CHOOSE k \in OpenerEnd + 3..Len(input) : input[k] = "|"
    ELSE OpenerEnd + 1

\* C21: an identifier followed on its line by { |params| body } or by
\* do |params| body end is parsed into a call of the identifier with no
\* arguments and with that block, and no error is recorded.
BlockOnIdentifier ==
    parsed =>
        /\ program = <<Slice(0, NameEnd) \o " { " \o Slice(OpenerEnd + 1, BodyBegin)
                        \o Rendered(BodyBegin, CloserStart - 1) \o " }">>
        /\ parser.errors = <<>>

\* ---------------------------------------------------------------------
\* if ... elsif ... else ... end
\* ---------------------------------------------------------------------

MaxElsif == 2

\* The conditions and the one-statement bodies of the branches.
BranchConditions == {<<"a">>, <<"a", " ", ">", " ", "1">>}
BranchBodies == {<<"b">>, <<"2">>}

\* Up to n branches  elsif c NEWLINE s NEWLINE.
RECURSIVE ElsifTexts(_)
ElsifTexts(n) ==
    IF n = 0 THEN {<<>>}
    ELSE ElsifTexts(n - 1) \cup
         {es \o <<"e", "l", "s", "i", "f", " ">> \o c \o <<"\n">> \o b \o <<"\n">> :
             es \in ElsifTexts(n - 1), c \in BranchConditions, b \in BranchBodies}

\* if c NEWLINE s NEWLINE, the elsif branches, an optional else branch, end
IfInputs ==
    {<<"i", "f", " ">> \o c \o <<"\n">> \o b \o <<"\n">> \o es \o el
        \o <<"e", "n", "d">> :
        c \in BranchConditions, b \in BranchBodies,
        es \in ElsifTexts(MaxElsif),
        el \in {<<>>} \cup {<<"e", "l", "s", "e", "\n">> \o e \o <<"\n">> :
                                e \in BranchBodies}}

IfInit == input \in IfInputs /\ Start

SpecIf == IfInit /\ [][ParserNext]_vars

\* The String() of the if-node for the branch whose line (if c or elsif c)
\* begins at offset a, when each elsif is the alternative of the node
\* before it and the else body belongs to the last node of the chain.
RECURSIVE ElseInInnermost(_)
ElseInInnermost(a) ==
    LET cond == a + (IF input[a + 1] = "i" THEN 3 ELSE 6)
        body == LineEnd(a) + 1
        next == LineEnd(body) + 1
    IN  "if " \o Rendered(cond, LineEnd(a)) \o "\n" \o Rendered(body, LineEnd(body))
        \o (IF input[next + 2] = "n" THEN ""
            ELSE IF input[next + 4] = "i" THEN "\nelsif " \o ElseInInnermost(next)
            ELSE "\nelse\n" \o Rendered(LineEnd(next) + 1, LineEnd(LineEnd(next) + 1)))
        \o "\nend"

\* C22: in if c1 ... elsif c2 ... else E end every elsif is an if-node that
\* is the alternative of the if-node before it, and E is the else body of
\* the last alternative of the chain.
ElseOnLastAlternative ==
    parsed => program = <<ElseInInnermost(0)>> /\ parser.errors = <<>>

\* ---------------------------------------------------------------------
\* String literals and their parts
\* ---------------------------------------------------------------------

MaxPieces == 3

\* The pieces of a double-quoted string: two runs of content, two embedded
\* expressions and an embedded instance variable.
PieceTexts ==
    {<<" ">>, <<" ", "a">>, <<"#", "{", "b", "}">>, <<"#", "{", "1", "}">>, <<"#", "@", "c">>}

\* "p1...pn" for up to MaxPieces pieces.
StringInit ==
    /\ input \in {<<"\"">> \o ps \o <<"\"">> : ps \in InputsOf(PieceTexts, MaxPieces)}
    /\ Start

SpecString == StringInit /\ [][ParserNext]_vars

\* The number of interpolation introducers among the tokens.
Introducers == Cardinality({i \in 1..Len(tokens) : tokens[i].Type \in {"EMBEXPR_BEGIN", "EMBVAR"}})

\* The parts that the tokens from the i-th on stand for, content being the
\* run of STRING_CONTENT read so far: every maximal run is one literal part,
\* every introducer with the one token of its expression is one part.
RECURSIVE TokenParts(_, _)
TokenParts(i, content) ==
    LET flush == IF content = "" THEN <<>> ELSE << <<"StringLiteral", content>> >>
    IN  IF i > Len(tokens) \/ tokens[i].Type \in {"STRING_END", "EOF"} THEN flush
        ELSE IF tokens[i].Type = "EMBEXPR_BEGIN"
        THEN flush \o << <<"Expression", tokens[i + 1].Literal>> >> \o TokenParts(i + 3, "")
        ELSE IF tokens[i].Type = "EMBVAR"
        THEN flush \o << <<"Expression", tokens[i + 1].Literal>> >> \o TokenParts(i + 2, "")
        ELSE TokenParts(i + 1, content \o tokens[i].Literal)

\* C23: a string literal whose tokens hold no interpolation introducer is
\* parsed into a plain string literal; one with k > 0 introducers and m
\* runs of content is parsed into an interpolated string whose parts are
\* the m literal parts and the k expressions in the order of the source,
\* every piece of the source in exactly one part.
PartsOfString ==
    parsed =>
        /\ Len(parser.strings) = 1
        /\ IF Introducers = 0
           THEN /\ parser.strings[1].node = "StringLiteral"
                /\ PartsString(parser.strings[1].parts) = PartsString(TokenParts(2, ""))
           ELSE /\ parser.strings[1].node = "InterpolatedString"
                /\ parser.strings[1].parts = TokenParts(2, "")

\* ---------------------------------------------------------------------
\* Literals that the end of the source cuts short
\* ---------------------------------------------------------------------

MaxOpen == 3

\* What follows the opening quote or slash: content, a blank, a line end,
\* and the two closers.
OpenTexts == {<<"a">>, <<" ">>, <<"\n">>, <<"\"">>, <<"/">>}

\* A double-quoted string or a regex and up to MaxOpen pieces after its
\* opener.
OpenInit ==
    /\ input \in {o \o ps : o \in {<<"\"">>, <<"/">>}, ps \in InputsOf(OpenTexts, MaxOpen)}
    /\ Start

SpecOpen == OpenInit /\ [][ParserNext]_vars

\* The source ends inside a string or a regex: the last literal begun has
\* no end token.
EndsInsideLiteral ==
    \E i \in 1..Len(tokens) :
        /\ tokens[i].Type \in {"STRING_BEGIN", "REGEXP_BEGIN"}
        /\ \A j \in i + 1..Len(tokens) : tokens[j].Type \notin {"STRING_END", "REGEXP_END"}

\* C24: when the source ends inside a string or a regex, the parser has
\* recorded an error by the end of ParseProgram.
UnterminatedIsReported ==
    (parsed /\ EndsInsideLiteral) => parser.errors # <<>>

\* ---------------------------------------------------------------------
\* begin ... rescue ... else ... ensure ... end
\* ---------------------------------------------------------------------

\* The statements of the sections and the String() of each: a bare
\* expression, a sum, a call without parentheses, a return with a value and
\* one without.
StatementTexts ==
    {<<"x">>, <<"x", " ", "+", " ", "1">>, <<"f", " ", "a">>,
     <<"r", "e", "t", "u", "r", "n", " ", "a">>, <<"r", "e", "t", "u", "r", "n">>}

StatementString(text) ==
    CASE text = <<"x">> -> "x"
      [] text = <<"x", " ", "+", " ", "1">> -> "(x + 1)"
      [] text = <<"f", " ", "a">> -> "f(a)"
      [] text = <<"r", "e", "t", "u", "r", "n", " ", "a">> -> "return a"
      [] text = <<"r", "e", "t", "u", "r", "n">> -> "return"

\* The lines that introduce a rescue clause.
RescueTexts ==
    {<<"r", "e", "s", "c", "u", "e", " ", "E">>,
     <<"r", "e", "s", "c", "u", "e", " ", "E", " ", "=", ">", " ", "e">>}

\* The statements after the body: those of the rescue, else and ensure
\* sections.
HandlerTexts == {<<"x">>, <<"f", " ", "a">>}

\* begin, a statement, a rescue clause, an optional else section, an
\* optional ensure section and end, each on a line of its own.
BeginInputs ==
    {<<"b", "e", "g", "i", "n", "\n">> \o st \o <<"\n">> \o r \o <<"\n">> \o h
        \o <<"\n">> \o el \o en \o <<"e", "n", "d">> :
        st \in StatementTexts, r \in RescueTexts, h \in HandlerTexts,
        el \in {<<>>} \cup {<<"e", "l", "s", "e", "\n">> \o e \o <<"\n">> :
                                e \in HandlerTexts},
        en \in {<<>>} \cup
                {<<"e", "n", "s", "u", "r", "e", "\n">> \o e \o <<"\n">> :
                    e \in HandlerTexts}}

BeginInit == input \in BeginInputs /\ Start

SpecBegin == BeginInit /\ [][ParserNext]_vars

\* The String() of the statement on the line that begins at offset a.
LineString(a) == StatementString(SubSeq(input, a + 1, LineEnd(a)))

\* The String() of the sections from the line at offset a on: the line of
\* the keyword as it is written, the statement of the section, and so on
\* up to the end.
RECURSIVE SectionsFrom(_)
SectionsFrom(a) ==
    IF input[a + 2] = "n" /\ input[a + 3] = "d" THEN "\nend"
    ELSE "\n" \o Slice(a, LineEnd(a)) \o "\n" \o LineString(LineEnd(a) + 1)
         \o SectionsFrom(LineEnd(LineEnd(a) + 1) + 1)

\* C25: in a begin expression a rescue, else, ensure or end that follows a
\* statement ends the statement and is never taken as its modifier or
\* continuation, whatever the statement is: the program is the begin node
\* with its body, its rescue clause and its other sections.
TerminatorsEndStatements ==
    parsed =>
        /\ program = <<"begin\n" \o LineString(6) \o SectionsFrom(LineEnd(6) + 1)>>
        /\ parser.errors = <<>>

\* ---------------------------------------------------------------------
\* Variables in interpolations
\* ---------------------------------------------------------------------

\* Source text around an instance or a global variable in a string.
VariableFragments ==
    {<<"\"">>, <<"#", "{">>, <<"#", "@", "b">>, <<"#", "$", "c">>, <<"@", "b">>,
     <<"$", "c">>, <<"}">>, <<" ">>}

VariableInit == InitWith(VariableFragments)

SpecVariable == VariableInit /\ [][Next]_vars

\* The call has returned the token of an instance, class or global variable.
VariableReturned == ~panicked /\ tok.Type \in {"IVAR", "CVAR", "GVAR"}

\* C26: the token of a variable makes the paused string current again when
\* it follows an EMBVAR, and only then: after a variable inside #{ ... }
\* the lexer is still in normal mode.
VariableResumesString ==
    VariableReturned => (l.currentState # 0 <=> prev.Type = "EMBVAR")

\* ---------------------------------------------------------------------
\* Modifier keywords and line ends
\* ---------------------------------------------------------------------

\* The expressions before the keyword and the conditions after it.
LeftTexts == {<<"a">>, <<"1">>, <<"a", " ", "+", " ", "1">>}
RightTexts == {<<"b">>, <<"b", " ", ">", " ", "1">>}

ModifierKeywords ==
    {<<"i", "f">>, <<"u", "n", "l", "e", "s", "s">>, <<"w", "h", "i", "l", "e">>,
     <<"u", "n", "t", "i", "l">>, <<"r", "e", "s", "c", "u", "e">>}

\* e k c on one line; e, and on the next line k c, followed by a body and
\* end on lines of their own unless k is rescue.
LinesInputs ==
    {e \o <<" ">> \o k \o <<" ">> \o c :
        e \in LeftTexts, k \in ModifierKeywords, c \in RightTexts}
    \cup
    {e \o <<"\n">> \o k \o <<" ">> \o c
       \o (IF k[1] = "r" THEN <<>> ELSE <<"\n">> \o b \o <<"\n", "e", "n", "d">>) :
        e \in LeftTexts, k \in ModifierKeywords, c \in RightTexts, b \in LeftTexts}

LinesInit == input \in LinesInputs /\ Start

SpecLines == LinesInit /\ [][ParserNext]_vars

\* The offset of the blank or line end before the keyword, and the offset
\* of the blank after it.
KeywordAt ==
    CHOOSE k \in 0..Len(input) - 2 :
        input[k + 1] \in {" ", "\n"} /\ input[k + 2] \in {"i", "u", "w", "r"}
AfterKeyword == CHOOSE k \in KeywordAt + 1..Len(input) : input[k + 1] = " "

\* C27: a modifier keyword is applied to the expression before it only on
\* the same line. After a line end the statement is the expression alone
\* and the keyword begins the next statement: for if, the if-expression
\* with its condition and body.
ModifierOnSameLineOnly ==
    parsed =>
        IF input[KeywordAt + 1] = " "
        THEN /\ program = <<Rendered(0, KeywordAt) \o Slice(KeywordAt, AfterKeyword) \o " "
                            \o Rendered(AfterKeyword + 1, Len(input))>>
             /\ parser.errors = <<>>
        ELSE /\ Len(program) >= 1
             /\ program[1] = Rendered(0, KeywordAt)
             /\ input[KeywordAt + 2] = "i" =>
                    /\ program = <<Rendered(0, KeywordAt),
                                   "if " \o Rendered(AfterKeyword + 1, LineEnd(AfterKeyword))
                                   \o "\n"
                                   \o Rendered(LineEnd(AfterKeyword) + 1,
                                               LineEnd(LineEnd(AfterKeyword) + 1))
                                   \o "\nend">>
                    /\ parser.errors = <<>>

\* ---------------------------------------------------------------------
\* A slash after an operator
\* ---------------------------------------------------------------------

\* Source text around a slash that follows an operator, a comma or an
\* opening bracket.
OperatorFragments ==
    {<<"/">>, <<"=">>, <<"!">>, <<"~">>, <<",">>, <<"(">>, <<"[">>, <<")">>, <<"]">>,
     <<"b">>, <<" ">>}

OperatorInit == InitWith(OperatorFragments)

SpecOperator == OperatorInit /\ [][Next]_vars

\* The tokens after which a / begins a regexp.
RegexpIntroducers ==
    {"EQUAL", "EQUAL_EQUAL", "EQUAL_TILDE", "BANG", "BANG_EQUAL", "BANG_TILDE", "COMMA",
     "LPAREN", "LBRACKET"}

\* C28: a / that no = follows and that comes right after =, ==, =~, !, !=,
\* !~, a comma, ( or [ is REGEXP_BEGIN, whatever came before on the line.
RegexpAfterOperator ==
    (AtSlash /\ peekChar(at) # "=" /\ prev.Type \in RegexpIntroducers)
        => tok.Type = "REGEXP_BEGIN"

\* ---------------------------------------------------------------------
\* A line and the line before it
\* ---------------------------------------------------------------------

\* Source text of a line with a slash.
LineFragments ==
    {<<"/">>, <<"b">>, <<"1">>, <<"\"">>, <<"}">>, <<"*">>, <<" ">>, <<"\n">>}

\* A line end and then s, for every s made of the fragments.
TwoLexersInit ==
    /\ input \in {<<"\n">> \o s : s \in InputsOf(LineFragments, MaxFrags)}
    /\ Start

\* The first call on the whole input, which returns its leading NEWLINE.
LeadingNewline ==
    /\ tok.Type = "NONE"
    /\ NextTokenCall

\* A call of NextToken on each of the two Lexers.
BothCall ==
    /\ tok.Type # "NONE"
    /\ ~panicked /\ ~plain.panicked
    /\ Returned(NextToken(l))
    /\ LET r == NextToken(plain.l)
       IN  plain' = [l |-> r.l, tok |-> IF r.panic THEN plain.tok ELSE r.tok,
                     panicked |-> r.panic]
    /\ tick' = 1 - tick
    /\ UNCHANGED <<input, tokens, parser, program, parsed>>

SpecTwoLexers == TwoLexersInit /\ [][LeadingNewline \/ BothCall]_vars

\* C29: sawNewline is set exactly while the last token returned is a
\* NEWLINE, and so the kinds of the tokens of s do not depend on a line
\* before it: after the leading NEWLINE the Lexer of "\n" + s returns the
\* kinds that the Lexer of s returns.
SameKindsAfterNewline ==
    (~panicked /\ ~plain.panicked /\ tok.Type # "NONE") =>
        /\ l.sawNewline <=> tok.Type = "NEWLINE"
        /\ plain.tok.Type # "NONE" => tok.Type = plain.tok.Type

\* ---------------------------------------------------------------------
\* Termination of ParseProgram
\* ---------------------------------------------------------------------

\* The beginnings of the given inputs: every input cut after any number of
\* its bytes.
Beginnings(S) == UNION {{SubSeq(i, 1, k) : k \in 0..Len(i)} : i \in S}

\* Calls with arguments and modifiers, whole; blocks, if expressions and
\* begin expressions, whole and cut short at every byte.
AnyInit ==
    /\ input \in CallInputs \cup LinesInputs
                 \cup Beginnings(BlockInputs \cup IfInputs \cup BeginInputs)
    /\ Start

SpecAny == AnyInit /\ [][ParserNext]_vars

====
